---- MODULE Spec2Model ----
(***************************************************************************)
(* Verification model of the weather_backend aggregation pipeline.         *)
(*                                                                         *)
(*   SpecAgg   : one get_weather(config) call (weather_scraper.py) over    *)
(*               every configuration of the six providers and every        *)
(*               outcome of the network requests the adapters issue.       *)
(*   SpecCache : one AccuWeatherClient used sequentially                   *)
(*               (accuweather_client.py): construction, cache lookups,     *)
(*               geocoding requests, cache appends and whole-file saves.   *)
(*   SpecConc  : two AccuWeatherClient instances sharing one cache file,   *)
(*               interleaved at the granularity of their file operations.  *)
(*   SpecGeo, SpecParse, SpecAdapter, SpecUnits, SpecTrip, SpecCloud,      *)
(*   SpecAlerts, SpecAccu, SpecRepeat, SpecNorm, SpecSpeed, SpecCli :      *)
(*               one function (or one short sequence of calls) applied on  *)
(*               its own to every input of a bounded set.                  *)
(*                                                                         *)
(* Floating-point coordinates are modelled as integers in micro-degrees    *)
(* (1e-6 degree), so the 0.0001 tolerance of find_cached_key is 100.       *)
(***************************************************************************)
EXTENDS Integers, Sequences, FiniteSets, TLC

VARIABLES
    \* ---- get_weather (weather_scraper.py) ----
    apis,           \* config["apis"]: ordered entries [api, enabled]
    location,       \* config["location"]: the input string, split at commas
    units,          \* config["units"]
    pc,             \* position inside get_weather: index into CallOrder, then BuildView, then "done"
    results,        \* the local list `results`
    invoked,        \* adapters (get_*_data) called so far, in call order
    adapter_status, \* per provider: "not_run", "succeeded", "failed" or "blocked"
    geocode_calls,  \* forward-geocoding requests issued during the call
    ret,            \* get_weather: "running", ended with "view", "None" or "raised",
                    \* or "blocked" inside a request that never ends
    view,           \* the WeatherView get_weather returned, or None
    raised,         \* the exception type that left get_weather, or "none"
    \* ---- AccuWeatherClient (accuweather_client.py) ----
    clients,        \* the client instances that exist in this run
    cache_file,     \* the shared cache file: [state, content, tail]
    cpc,            \* per client: position inside __init__ / get_location_key / _save_cache
    cached_keys,    \* per client: self.cached_keys
    call,           \* per client: the get_location_key call in progress or last finished
    ncalls,         \* per client: get_location_key calls started
    \* ---- one function applied on its own (resolvers, adapters, conversions) ----
    fcall,          \* the function and the arguments it is called with
    fpc,            \* "idle" not used, "start" called, "sent" request answered, "done" finished
    fresp,          \* what the network (and the disk) answered during the call,
                    \* or what an earlier call of a sequence handed back
    fout,           \* what the call handed back, None while it runs
    fnet            \* HTTP requests the call has issued (manage_locations:
                    \* menu choices handled)

aggVars   == <<apis, location, units, pc, results, invoked, adapter_status,
               geocode_calls, ret, view, raised>>
cacheVars == <<clients, cache_file, cpc, cached_keys, call, ncalls>>
funcVars  == <<fcall, fpc, fresp, fout, fnet>>
vars      == <<apis, location, units, pc, results, invoked, adapter_status,
               geocode_calls, ret, view, raised,
               clients, cache_file, cpc, cached_keys, call, ncalls,
               fcall, fpc, fresp, fout, fnet>>

(***************************************************************************)
(* Generic helpers                                                         *)
(***************************************************************************)
Range(s) == {s[i] : i \in 1..Len(s)}

IsPrefix(s, t) == Len(s) <= Len(t) /\ \A i \in 1..Len(s) : s[i] = t[i]

Abs(x) == IF x < 0 THEN -x ELSE x

SeqsUpTo(S, n) == UNION {[1..k -> S] : k \in 0..n}

Count(s, x) == Cardinality({i \in 1..Len(s) : s[i] = x})

(***************************************************************************)
(* Location input and parse_location (weather_shared.py)                   *)
(***************************************************************************)
\* Text of a comma-separated part that float() accepts, with its value in
\* micro-degrees.
FloatLiterals == {"38.6052", "-121.34272"}

ParseFloat(part) ==
    CASE part = "38.6052"    -> 38605200
      [] part = "-121.34272" -> -121342720

\* Python's None is the empty set and a present value v is {v}, so that an
\* optional number and an optional string stay comparable.
None == {}
Some(v) == {v}
The(o) == CHOOSE v \in o : TRUE

NoneLoc == [lat |-> None, lon |-> None, city |-> None, state |-> None, error |-> "none"]

\* str.strip(): some parts come with a leading blank.
Strip(part) ==
    CASE part = " -121.34272" -> "-121.34272"
      [] part = " CA"         -> "CA"
      [] OTHER                -> part

\* Mutant: the length test as `len(parts) >= 2`.
parse_location_ge2(loc) ==
    IF Len(loc) >= 2
    THEN IF Strip(loc[1]) \in FloatLiterals /\ Strip(loc[2]) \in FloatLiterals
         THEN [NoneLoc EXCEPT !.lat = Some(ParseFloat(Strip(loc[1]))),
                              !.lon = Some(ParseFloat(Strip(loc[2])))]
         ELSE [NoneLoc EXCEPT !.city = Some(Strip(loc[1])), !.state = Some(Strip(loc[2]))]
    ELSE [NoneLoc EXCEPT !.error = "ValueError"]

\* parse_location: `loc` is location.split(","), the sequence of the parts
\* between the commas.  float() of both stripped parts, and on ValueError the
\* stripped parts as city and state; any other number of parts is a ValueError.
parse_location(loc) ==
    IF Len(loc) = 2
    THEN IF Strip(loc[1]) \in FloatLiterals /\ Strip(loc[2]) \in FloatLiterals
         THEN [NoneLoc EXCEPT !.lat = Some(ParseFloat(Strip(loc[1]))),
                              !.lon = Some(ParseFloat(Strip(loc[2])))]
         ELSE [NoneLoc EXCEPT !.city = Some(Strip(loc[1])), !.state = Some(Strip(loc[2]))]
    ELSE [NoneLoc EXCEPT !.error = "ValueError"]

IsCoords(l) == l.lat # None /\ l.lon # None
IsCity(l)   == l.city # None /\ l.state # None

(***************************************************************************)
(* Outcomes of one HTTP request, as the adapters can observe them          *)
(***************************************************************************)
\*   ok           2xx, body is the provider's documented payload
\*   transport    connection error or timeout (requests / urllib raise)
\*   http_error   non-2xx status, body is the provider's JSON error document
\*   unauthorized 401/403, body is the provider's JSON error document
\*   bad_json     2xx, body is not JSON
\*   malformed    2xx, JSON without the keys the adapter reads
\*   no_answer    the connection is made and the server never sends a response
HttpOutcomes == {"ok", "transport", "http_error", "unauthorized", "bad_json", "malformed",
                 "no_answer"}

\* requests.get(url, ..., timeout=...): the wait for the server is bounded, a
\* server that never answers ends the call with requests' Timeout, which is a
\* RequestException like a connection error.
requests_get(answer) == IF answer = "no_answer" THEN "transport" ELSE answer

\* urllib.request.urlopen(url): no timeout argument and no default socket
\* timeout, so the call waits for the server without bound.
urlopen(answer) == answer

\* Top-level keys of the JSON document an outcome delivers (the empty set when
\* no document is delivered).
ErrorOutcomes == {"http_error", "unauthorized"}

PayloadKeys(okKeys, errKeys, o) ==
    CASE o = "ok" -> okKeys
      [] o \in ErrorOutcomes -> errKeys
      [] OTHER -> {}

(***************************************************************************)
(* Values the adapters hand back to get_weather                            *)
(***************************************************************************)
\* tag: "report" a WeatherReport, "None", "str" the string "something",
\*      "raise" an exception leaving the function.
\* ok:  whether the adapter obtained the provider's weather data.
\* set: the attributes of the report's WeatherData that are not None.
R_report(src, weather) ==
                 [tag |-> "report", source |-> src, current |-> "WeatherData",
                  exc |-> "none", ok |-> TRUE, set |-> weather.set]
R_None        == [tag |-> "None", source |-> "none", current |-> "null",
                  exc |-> "none", ok |-> FALSE, set |-> {}]
R_str(okflag) == [tag |-> "str", source |-> "none", current |-> "null",
                  exc |-> "none", ok |-> okflag, set |-> {}]
R_raise(e)    == [tag |-> "raise", source |-> "none", current |-> "null",
                  exc |-> e, ok |-> FALSE, set |-> {}]
\* The adapter never hands anything back: it waits inside a request.
R_blocked     == [tag |-> "blocked", source |-> "none", current |-> "null",
                  exc |-> "none", ok |-> FALSE, set |-> {}]

(***************************************************************************)
(* geocode (open_meteo_scraper.py) and reverse_geocode                     *)
(* (open_weather_map_scraper.py)                                           *)
(***************************************************************************)
MaxCandidates == 2

Candidates ==
    { [country_code |-> "US", admin1 |-> "CA",     feature_code |-> "PPL",
       latitude |-> 38581600, longitude |-> -121494400],
      [country_code |-> "US", admin1 |-> "CA",     feature_code |-> "PPL",
       latitude |-> 38000000, longitude |-> -121000000],
      [country_code |-> "US", admin1 |-> "CA",     feature_code |-> "ADM2",
       latitude |-> 38450000, longitude |-> -121340000],
      [country_code |-> "US", admin1 |-> "Nevada", feature_code |-> "PPL",
       latitude |-> 39000000, longitude |-> -119000000],
      [country_code |-> "MX", admin1 |-> "CA",     feature_code |-> "PPL",
       latitude |-> 25000000, longitude |-> -100000000] }

\* A geocoding response: the request's outcome and, for a 2xx JSON body, whether
\* it is empty, whether it carries a "results" key and the candidates under it.
GeocodeResponses ==
    [kind : {"transport", "http_error", "bad_json", "no_answer", "empty", "no_results_key"},
     results : {<<>>}]
    \cup [kind : {"results"}, results : SeqsUpTo(Candidates, MaxCandidates)]

G_None     == [tag |-> "None", exc |-> "none", latitude |-> None, longitude |-> None]
G_raise(e) == [tag |-> "raise", exc |-> e, latitude |-> None, longitude |-> None]
G_dict(r)  == [tag |-> "dict", exc |-> "none",
               latitude |-> Some(r.latitude), longitude |-> Some(r.longitude)]

\* geocode: request failures (RequestException, which covers an HTTP error
\* status and a body that is not JSON) and an empty document give None; a
\* document without "results" raises KeyError; otherwise the first candidate
\* that passes the three filters, or None.
\* Mutant: the filter without its feature_code test.
geocode_filter_no_ppl(r, state, country) ==
    /\ r.country_code = country
    /\ r.admin1 = state

geocode_filter(r, state, country) ==
    /\ r.country_code = country
    /\ r.admin1 = state
    /\ r.feature_code = "PPL"

geocode(city, state, country, resp) ==
    IF requests_get(resp.kind) \in {"transport", "http_error", "bad_json"} THEN G_None
    ELSE IF resp.kind = "empty" THEN G_None
    ELSE IF resp.kind = "no_results_key" THEN G_raise("KeyError")
    ELSE LET filtered_results ==
                 SelectSeq(resp.results, LAMBDA r : geocode_filter(r, state, country))
         IN  IF filtered_results # <<>> THEN G_dict(filtered_results[1]) ELSE G_None

ReverseOutcomes == {"ok", "transport", "http_error", "unauthorized", "bad_json",
                    "no_answer", "empty"}

RG_None       == [tag |-> "None", city |-> None, state |-> None]
RG_dict(c, s) == [tag |-> "dict", city |-> Some(c), state |-> Some(s)]

\* reverse_geocode returns None unless the request delivers a non-empty list,
\* whose first entry gives city and state.
reverse_geocode(lat, lon, o) ==
    IF requests_get(o) \in {"transport", "http_error", "unauthorized", "bad_json"} THEN RG_None
    ELSE IF o = "empty" THEN RG_None
    ELSE RG_dict("Sacramento", "California")

(***************************************************************************)
(* Current-conditions payloads and the parse functions                     *)
(***************************************************************************)
\* A current-conditions payload is the set of the keys it has.  A parse
\* function is given by the keys it subscripts (data[key], KeyError when the
\* key is absent) and the keys it reads with data.get(key), each with the
\* WeatherData attribute it fills.
WeatherDataOf(attrs) == [tag |-> "WeatherData", set |-> attrs, exc |-> "none"]
ParseRaise(e)        == [tag |-> "raise", set |-> {}, exc |-> e]

ParseBy(subscripts, gets, data) ==
    IF \E a \in DOMAIN subscripts : subscripts[a] \notin data
    THEN ParseRaise("KeyError")
    ELSE WeatherDataOf(DOMAIN subscripts \cup {a \in DOMAIN gets : gets[a] \in data})

NoReads == [a \in {} |-> ""]

\* ---- WeatherAPI: data["current"] ----
WEATHERAPI_CURRENT_KEYS ==
    {"temp_c", "temp_f", "feelslike_c", "feelslike_f", "windchill_c", "windchill_f",
     "heatindex_c", "heatindex_f", "dewpoint_c", "dewpoint_f", "wind_mph", "wind_kph",
     "wind_degree", "wind_dir", "gust_mph", "gust_kph", "humidity", "pressure_in",
     "pressure_mb", "precip_in", "precip_mm", "vis_miles", "vis_km", "cloud", "uv",
     "last_updated", "condition"}

parse_weatherapi_data_subscripts(units_arg) ==
    IF units_arg = "imperial"
    THEN [temperature |-> "temp_f", feels_like |-> "feelslike_f",
          wind_chill |-> "windchill_f", heat_index |-> "heatindex_f",
          dew_point |-> "dewpoint_f", wind_speed |-> "wind_mph",
          wind_degree |-> "wind_degree", wind_direction |-> "wind_dir",
          wind_gust |-> "gust_mph", humidity |-> "humidity",
          pressure |-> "pressure_in", precipitation |-> "precip_in",
          visibility |-> "vis_miles", cloud_cover |-> "cloud", uv |-> "uv",
          timestamp |-> "last_updated", condition |-> "condition"]
    ELSE [temperature |-> "temp_c", feels_like |-> "feelslike_c",
          wind_chill |-> "windchill_c", heat_index |-> "heatindex_c",
          dew_point |-> "dewpoint_c", wind_speed |-> "wind_kph",
          wind_degree |-> "wind_degree", wind_direction |-> "wind_dir",
          wind_gust |-> "gust_kph", humidity |-> "humidity",
          pressure |-> "pressure_mb", precipitation |-> "precip_in",
          visibility |-> "vis_km", cloud_cover |-> "cloud", uv |-> "uv",
          timestamp |-> "last_updated", condition |-> "condition"]

parse_weatherapi_data(data, units_arg) ==
    ParseBy(parse_weatherapi_data_subscripts(units_arg), NoReads, data)

\* ---- OpenWeatherMap: the whole document, keys written with their path ----
OPEN_WEATHER_CURRENT_KEYS ==
    {"main.temp", "main.feels_like", "main.humidity", "main.pressure", "wind.speed",
     "wind.deg", "wind.gust", "visibility", "clouds.all", "dt", "weather"}

parse_open_weather_map_data_subscripts(units_arg) ==
    IF units_arg = "imperial"
    THEN [temperature |-> "main.temp", feels_like |-> "main.feels_like",
          wind_speed |-> "wind.speed", wind_degree |-> "wind.deg",
          wind_direction |-> "wind.deg", humidity |-> "main.humidity",
          pressure |-> "main.pressure", visibility |-> "visibility",
          cloud_cover |-> "clouds.all", condition |-> "weather"]
    ELSE [temperature |-> "temp_c"]

parse_open_weather_map_data_gets(units_arg) ==
    IF units_arg = "imperial" THEN [timestamp |-> "dt"] ELSE NoReads

parse_open_weather_map_data(data, units_arg) ==
    ParseBy(parse_open_weather_map_data_subscripts(units_arg),
            parse_open_weather_map_data_gets(units_arg), data)

\* ---- Open-Meteo: data["current_weather"] ----
OPEN_METEO_CURRENT_KEYS ==
    {"time", "temperature", "windspeed", "winddirection", "weathercode", "is_day"}

parse_open_meteo_data_subscripts(units_arg) ==
    IF units_arg = "imperial"
    THEN [temperature |-> "temperature", wind_speed |-> "windspeed",
          wind_degree |-> "winddirection", wind_direction |-> "winddirection",
          condition_str |-> "weathercode"]
    ELSE NoReads

parse_open_meteo_data(data, units_arg) ==
    ParseBy(parse_open_meteo_data_subscripts(units_arg), NoReads, data)

\* ---- NWS: current_observation_data_json["properties"] ----
NWS_CURRENT_KEYS ==
    {"temperature", "windChill", "heatIndex", "dewpoint", "windSpeed", "windDirection",
     "windGust", "relativeHumidity", "barometricPressure", "visibility", "cloudLayers",
     "icon", "timestamp", "textDescription"}

get_nws_data_subscripts ==
    [temperature |-> "temperature", wind_chill |-> "windChill",
     heat_index |-> "heatIndex", dew_point |-> "dewpoint", wind_speed |-> "windSpeed",
     wind_degree |-> "windDirection", wind_direction |-> "windDirection",
     wind_gust |-> "windGust", humidity |-> "relativeHumidity",
     pressure |-> "barometricPressure", visibility |-> "visibility",
     cloud_cover |-> "cloudLayers", icon |-> "icon", timestamp |-> "timestamp",
     condition_str |-> "textDescription"]

\* What finishes an adapter once every request has been answered: the parse
\* function's exception, or the report around its WeatherData.
ReportOrRaise(src, weather) ==
    IF weather.tag = "raise" THEN R_raise(weather.exc) ELSE R_report(src, weather)

(***************************************************************************)
(* Unit conversions (national_weather_service/nws_config.py)               *)
(***************************************************************************)
\* A number is a decimal [n, e] standing for n * 10^-e, so that products,
\* quotients and round(x, digits) are computed exactly; an optional number is
\* None or Some(decimal).
Dec(n, e) == [n |-> n, e |-> e]

RECURSIVE Pow10(_)
Pow10(k) == IF k = 0 THEN 1 ELSE 10 * Pow10(k - 1)

\* num / den (den > 0) rounded to the nearest integer, ties to the even one.
RoundDiv(num, den) ==
    LET q == num \div den
        r == num % den
    IN  IF 2 * r < den THEN q
        ELSE IF 2 * r > den THEN q + 1
        ELSE IF q % 2 = 0 THEN q ELSE q + 1

\* round(x, digits)
Round(x, digits) ==
    IF x.e <= digits THEN x
    ELSE Dec(RoundDiv(x.n, Pow10(x.e - digits)), digits)

\* x * c, c a decimal constant
Mul(x, c) == Dec(x.n * c.n, x.e + c.e)

\* x + k, k an integer
AddInt(x, k) == Dec(x.n + k * Pow10(x.e), x.e)

\* round(x / c, digits), c a decimal constant
RoundQuot(x, c, digits) ==
    LET shift == c.e + digits - x.e
    IN  IF shift >= 0
        THEN Dec(RoundDiv(x.n * Pow10(shift), c.n), digits)
        ELSE Dec(RoundDiv(x.n, c.n * Pow10(-shift)), digits)

\* Mutant: the conversion to metric rounded to whole degrees.
set_temp_whole_degrees(temperature_value, temperature_units, target_units) ==
    IF temperature_value = None THEN None
    ELSE LET v == The(temperature_value)
         IN  IF target_units = "imperial" /\ temperature_units = "wmoUnit:degC"
             THEN Some(Round(AddInt(Mul(v, Dec(18, 1)), 32), 1))
             ELSE IF target_units = "metric" /\ temperature_units = "wmoUnit:degF"
             THEN Some(RoundQuot(AddInt(v, -32), Dec(18, 1), 0))
             ELSE Some(Round(v, 1))


set_temp(temperature_value, temperature_units, target_units) ==
    IF temperature_value = None THEN None
    ELSE LET v == The(temperature_value)
         IN  IF target_units = "imperial" /\ temperature_units = "wmoUnit:degC"
             THEN Some(Round(AddInt(Mul(v, Dec(18, 1)), 32), 1))
             ELSE IF target_units = "metric" /\ temperature_units = "wmoUnit:degF"
             THEN Some(RoundQuot(AddInt(v, -32), Dec(18, 1), 1))
             ELSE Some(Round(v, 1))

\* Mutant: the fallback branch without its return value.
set_speed_no_fallback(speed_value, speed_units, target_units) ==
    IF speed_value = None THEN None
    ELSE LET v == The(speed_value)
         IN  IF target_units = "imperial" /\ speed_units = "wmoUnit:m_s-1"
             THEN Some(Round(Mul(v, Dec(223694, 5)), 1))
             ELSE IF target_units = "imperial" /\ speed_units = "wmoUnit:km_h-1"
             THEN Some(Round(Mul(v, Dec(621371, 6)), 1))
             ELSE IF target_units = "metric" /\ speed_units = "wmoUnit:mph"
             THEN Some(Round(Mul(v, Dec(160934, 5)), 1))
             ELSE IF target_units = "metric" /\ speed_units = "wmoUnit:m_s-1"
             THEN Some(v)
             ELSE None

set_speed(speed_value, speed_units, target_units) ==
    IF speed_value = None THEN None
    ELSE LET v == The(speed_value)
         IN  IF target_units = "imperial" /\ speed_units = "wmoUnit:m_s-1"
             THEN Some(Round(Mul(v, Dec(223694, 5)), 1))
             ELSE IF target_units = "imperial" /\ speed_units = "wmoUnit:km_h-1"
             THEN Some(Round(Mul(v, Dec(621371, 6)), 1))
             ELSE IF target_units = "metric" /\ speed_units = "wmoUnit:mph"
             THEN Some(Round(Mul(v, Dec(160934, 5)), 1))
             ELSE IF target_units = "metric" /\ speed_units = "wmoUnit:m_s-1"
             THEN Some(v)
             ELSE Some(v)

set_pressure(pressure_value, pressure_units, target_units) ==
    IF pressure_value = None THEN None
    ELSE LET v == The(pressure_value)
         IN  IF target_units = "imperial"
             THEN IF pressure_units = "wmoUnit:Pa"
                  THEN Some(Round(Mul(v, Dec(2953, 7)), 2))
                  ELSE IF pressure_units = "wmoUnit:hPa"
                  THEN Some(Round(Mul(v, Dec(2953, 5)), 2))
                  ELSE Some(v)
             ELSE IF target_units = "metric"
             THEN IF pressure_units = "wmoUnit:Pa"
                  THEN Some(Round(Dec(v.n, v.e + 2), 1))
                  ELSE IF pressure_units = "wmoUnit:hPa"
                  THEN Some(v)
                  ELSE IF pressure_units = "wmoUnit:inHg"
                  THEN Some(RoundQuot(v, Dec(2953, 5), 2))
                  ELSE Some(v)
             ELSE Some(v)

set_visibility(visibility_value, visibility_units, target_units) ==
    IF visibility_value = None THEN None
    ELSE LET v == The(visibility_value)
         IN  IF target_units = "metric"
             THEN IF visibility_units = "wmoUnit:mi"
                  THEN Some(Round(Mul(v, Dec(160934, 2)), 2))
                  ELSE Some(v)
             ELSE IF target_units = "imperial"
             THEN IF visibility_units = "wmoUnit:m"
                  THEN Some(RoundQuot(v, Dec(160934, 2), 2))
                  ELSE Some(v)
             ELSE Some(v)

\* a >= b on decimals
DecGE(a, b) == a.n * Pow10(b.e) >= b.n * Pow10(a.e)

\* max(percents)
MaxDec(S) == CHOOSE x \in S : \A y \in S : DecGE(x, y)

\* str.upper on the coverage codes that occur
Upper(text) == IF text = "ovc" THEN "OVC" ELSE text

coverage_map ==
    [SKC |-> Dec(0, 0), CLR |-> Dec(0, 0), FEW |-> Dec(125, 1), SCT |-> Dec(375, 1),
     BKN |-> Dec(75, 0), OVC |-> Dec(100, 0)]

\* A layer is its "amount": None when the key is absent or null, else
\* Some(text). percents is built from the layers whose amount is a non-empty
\* text that coverage_map knows after upper().
CloudPercents(layers) ==
    {coverage_map[Upper(The(layers[i]))] :
        i \in {j \in 1..Len(layers) :
                  /\ layers[j] # None /\ The(layers[j]) # ""
                  /\ Upper(The(layers[j])) \in DOMAIN coverage_map}}

\* Mutant: the first layer's percentage instead of the largest.
set_cloud_cover_first(cloud_layers) ==
    IF cloud_layers = None \/ The(cloud_layers) = <<>> THEN None
    ELSE LET layers == The(cloud_layers)
             first  == {i \in 1..Len(layers) :
                           /\ layers[i] # None /\ The(layers[i]) # ""
                           /\ Upper(The(layers[i])) \in DOMAIN coverage_map}
         IN  IF first = {} THEN None
             ELSE Some(coverage_map[Upper(The(layers[
                          CHOOSE i \in first : \A k \in first : i <= k]))])

\* cloud_layers is None (null) or Some(sequence of layers).
set_cloud_cover(cloud_layers) ==
    IF cloud_layers = None \/ The(cloud_layers) = <<>> THEN None
    ELSE LET percents == CloudPercents(The(cloud_layers))
         IN  IF percents = {} THEN None ELSE Some(MaxDec(percents))


(***************************************************************************)
(* Provider adapters                                                       *)
(***************************************************************************)
\* A Python call: a call whose argument count differs from the function's
\* required parameters raises TypeError before the body runs.
PyCall(nargs, nparams, body) ==
    IF nargs # nparams THEN R_raise("TypeError") ELSE body

get_accuweather_data_params == 2   \* def get_accuweather_data(location, units)
get_accuweather_data_args   == 1   \* get_accuweather_data(city_state)

\* Body of get_accuweather_data: AccuWeatherClient().get_location_key("Home"),
\* then get_current_conditions; both raise RuntimeError on any request failure;
\* the function prints the conditions and returns nothing.
get_accuweather_data(loc_arg, units_arg, answer) ==
    IF requests_get(answer) = "ok" THEN [R_None EXCEPT !.ok = TRUE]
    ELSE R_raise("RuntimeError")

\* get_nws_data: six urlopen requests and five diagnostic file writes, none of
\* them guarded.  o: how the points request is answered (the later requests
\* succeed); w: "ok", or "fails" when the module's directory cannot be written,
\* so that open(location_file, "w") raises; data: the keys of the properties
\* of the latest observation.
get_nws_data(latitude, longitude, units_arg, answer, data, w) ==
    LET o == urlopen(answer) IN
    IF o = "no_answer" THEN R_blocked
    ELSE IF o = "transport" THEN R_raise("URLError")
    ELSE IF o \in ErrorOutcomes THEN R_raise("HTTPError")
    ELSE IF o = "bad_json" THEN R_raise("JSONDecodeError")
    ELSE IF w = "fails" THEN R_raise("OSError")
    ELSE IF o = "malformed" THEN R_raise("KeyError")
    ELSE ReportOrRaise("nws", ParseBy(get_nws_data_subscripts, NoReads, data))

OPEN_METEO_OK_KEYS  == {"latitude", "longitude", "current_weather", "hourly", "daily"}
OPEN_METEO_ERR_KEYS == {"error", "reason"}

get_open_meteo_data(loc_arg, units_arg, georesp, answer, data) ==
    LET o    == requests_get(answer)
        loc  == parse_location(loc_arg)
        g    == IF IsCity(loc) THEN geocode(The(loc.city), The(loc.state), "US", georesp)
                ELSE G_None
        keys == PayloadKeys(OPEN_METEO_OK_KEYS, OPEN_METEO_ERR_KEYS, o)
    IN  IF loc.error # "none" THEN R_raise(loc.error)
        ELSE IF IsCity(loc) /\ g.tag = "raise" THEN R_raise(g.exc)
        ELSE IF IsCity(loc) /\ g.tag = "None" THEN R_None
        ELSE IF o = "transport" THEN R_raise("ConnectionError")
        ELSE IF o = "bad_json" THEN R_raise("JSONDecodeError")
        ELSE IF "current_weather" \notin keys THEN R_raise("KeyError")
        ELSE IF ~ ({"latitude", "longitude"} \subseteq keys) THEN R_raise("KeyError")
        ELSE ReportOrRaise("open_meteo", parse_open_meteo_data(data, units_arg))

OPEN_WEATHER_OK_KEYS  == {"coord", "weather", "main", "visibility", "wind", "clouds",
                          "dt", "sys", "name"}
OPEN_WEATHER_ERR_KEYS == {"cod", "message"}

\* Top-level keys parse_open_weather_map_data reads for each target system.
parse_open_weather_map_data_reads(units_arg) ==
    IF units_arg = "imperial"
    THEN {"main", "wind", "visibility", "clouds", "weather"}
    ELSE {"temp_c"}

get_open_weather_data(loc_arg, units_arg, answer, data) ==
    LET o    == requests_get(answer)
        loc  == parse_location(loc_arg)
        keys == PayloadKeys(OPEN_WEATHER_OK_KEYS, OPEN_WEATHER_ERR_KEYS, o)
    IN  IF loc.error # "none" THEN R_raise(loc.error)
        ELSE IF o = "transport" THEN R_raise("ConnectionError")
        ELSE IF o = "bad_json" THEN R_raise("JSONDecodeError")
        ELSE IF ~ (parse_open_weather_map_data_reads(units_arg) \subseteq keys)
             THEN R_raise("KeyError")
        ELSE IF ~ IsCity(loc) /\ ~ ({"lat", "lon"} \subseteq keys) THEN R_raise("KeyError")
        ELSE IF "coord" \notin keys THEN R_raise("KeyError")
        ELSE ReportOrRaise("open_weather", parse_open_weather_map_data(data, units_arg))

WEATHERAPI_OK_KEYS  == {"location", "current", "forecast", "alerts"}
WEATHERAPI_ERR_KEYS == {"error"}

\* o is the outcome of the forecast.json request, o2 of the astronomy.json one.
get_weatherapi_data(loc_arg, units_arg, answer, answer2, data) ==
    LET o    == requests_get(answer)
        o2   == requests_get(answer2)
        loc  == parse_location(loc_arg)
        keys == PayloadKeys(WEATHERAPI_OK_KEYS, WEATHERAPI_ERR_KEYS, o)
        current_weather == parse_weatherapi_data(data, units_arg)
    IN  IF loc.error # "none" THEN R_raise(loc.error)
        ELSE IF o = "transport" THEN R_raise("ConnectionError")
        ELSE IF o = "bad_json" THEN R_raise("JSONDecodeError")
        ELSE IF "current" \notin keys THEN R_raise("KeyError")
        ELSE IF current_weather.tag = "raise" THEN R_raise(current_weather.exc)
        ELSE IF o2 = "transport" THEN R_raise("ConnectionError")
        ELSE IF o2 = "bad_json" THEN R_raise("JSONDecodeError")
        ELSE IF ~ IsCity(loc) /\ ~ ({"latitude", "longitude"} \subseteq keys)
             THEN R_raise("KeyError")
        ELSE IF "location" \notin keys THEN R_raise("KeyError")
        ELSE R_report("WeatherApi", current_weather)

WEATHERBIT_OK_KEYS == {"data", "count"}

get_weatherbit_data(loc_arg, units_arg, answer) ==
    LET o    == requests_get(answer)
        loc  == parse_location(loc_arg)
        keys == PayloadKeys(WEATHERBIT_OK_KEYS, {}, o)
    IN  IF loc.error # "none" THEN R_raise(loc.error)
        ELSE IF o = "transport" THEN R_str(FALSE)       \* except RequestException
        ELSE IF o \in ErrorOutcomes THEN R_None          \* status_code != 200
        ELSE IF o = "bad_json" THEN R_str(FALSE)        \* except ValueError
        ELSE IF "data" \notin keys THEN R_raise("KeyError")
        ELSE R_str(TRUE)

(***************************************************************************)
(* get_weather (weather_scraper.py)                                        *)
(***************************************************************************)
Providers == {"accuweather", "national_weather_service", "open_meteo",
              "open_weather", "weatherapi", "weatherbit"}

\* Mutant: the open_meteo block placed before the national_weather_service one.
CallOrder_swapped == <<"accuweather", "open_meteo", "national_weather_service",
                       "open_weather", "weatherapi", "weatherbit">>

\* The order of the `if "<api>" in enabled_apis:` blocks of get_weather.
CallOrder == <<"accuweather", "national_weather_service", "open_meteo",
               "open_weather", "weatherapi", "weatherbit">>

BuildViewPc == Len(CallOrder) + 1
DonePc      == Len(CallOrder) + 2

\* Mutant: the comprehension without its `if details.get("enabled")` filter.
enabled_apis_unfiltered == [i \in 1..Len(apis) |-> apis[i].api]

\* enabled_apis = [api for api, details in apis_config.items() if details.get("enabled")]
enabled_apis ==
    LET on == SelectSeq(apis, LAMBDA e : e.enabled)
    IN  [i \in 1..Len(on) |-> on[i].api]

InEnabled(p) == p \in Range(enabled_apis)

\* What results.append(<adapter's return value>) puts into the list.
Element(r) == [tag |-> r.tag, source |-> r.source, current |-> r.current]

AtBlock(p) == ret = "running" /\ pc \in 1..Len(CallOrder) /\ CallOrder[pc] = p

\* The block of a provider that is not in enabled_apis does nothing.
SkipBlock ==
    /\ pc' = pc + 1
    /\ UNCHANGED <<results, invoked, adapter_status, geocode_calls, ret, view, raised>>

\* An exception leaves get_weather.
Propagate(e) ==
    /\ ret' = "raised" /\ raised' = e /\ pc' = DonePc
    /\ UNCHANGED <<results, view>>

\* get_weather called adapter p and got r; `appends` tells whether the block
\* appends the return value to results, `caught` which exception types the
\* block's try/except catches.
AfterCall(p, r, appends, caught) ==
    /\ invoked' = Append(invoked, p)
    /\ adapter_status' = [adapter_status EXCEPT ![p] =
                             IF r.tag = "blocked" THEN "blocked"
                             ELSE IF r.ok THEN "succeeded" ELSE "failed"]
    /\ IF r.tag = "blocked"
       THEN \* the adapter never returns, and so get_weather never goes on
            /\ ret' = "blocked"
            /\ UNCHANGED <<pc, results, view, raised>>
       ELSE IF r.tag = "raise" /\ r.exc \notin caught
       THEN Propagate(r.exc)
       ELSE /\ pc' = pc + 1
            /\ results' = IF appends /\ r.tag # "raise"
                          THEN Append(results, Element(r)) ELSE results
            /\ UNCHANGED <<ret, view, raised>>

AccuWeatherBlock ==
    /\ AtBlock("accuweather")
    /\ UNCHANGED <<apis, location, units>> /\ UNCHANGED cacheVars /\ UNCHANGED funcVars
    /\ IF ~ InEnabled("accuweather") THEN SkipBlock
       ELSE \E o_rg \in ReverseOutcomes, o \in HttpOutcomes :
            LET loc0 == parse_location(location)
                rg   == IF IsCoords(loc0)
                        THEN reverse_geocode(The(loc0.lat), The(loc0.lon), o_rg)
                        ELSE RG_dict(The(loc0.city), The(loc0.state))
            IN  /\ UNCHANGED geocode_calls
                /\ IF rg.tag = "None"
                   THEN \* loc['city'] on None
                        /\ Propagate("TypeError")
                        /\ adapter_status' = [adapter_status EXCEPT !["accuweather"] = "failed"]
                        /\ UNCHANGED invoked
                   ELSE AfterCall("accuweather",
                                  PyCall(get_accuweather_data_args,
                                         get_accuweather_data_params,
                                         get_accuweather_data(<<rg.city, rg.state>>, units, o)),
                                  FALSE, {"RuntimeError"})

NwsBlock ==
    /\ AtBlock("national_weather_service")
    /\ UNCHANGED <<apis, location, units>> /\ UNCHANGED cacheVars /\ UNCHANGED funcVars
    /\ IF ~ InEnabled("national_weather_service") THEN SkipBlock
       ELSE \E georesp \in GeocodeResponses, o \in HttpOutcomes, w \in {"ok", "fails"} :
            LET loc == parse_location(location)
                g   == IF IsCity(loc)
                       THEN geocode(The(loc.city), The(loc.state), "US", georesp)
                       ELSE G_None
            IN  /\ geocode_calls' = IF IsCity(loc) THEN geocode_calls + 1 ELSE geocode_calls
                /\ IF IsCity(loc) /\ g.tag = "raise"
                   THEN /\ Propagate(g.exc)
                        /\ adapter_status' =
                             [adapter_status EXCEPT !["national_weather_service"] = "failed"]
                        /\ UNCHANGED invoked
                   ELSE IF IsCity(loc) /\ g.tag = "None"
                   THEN \* "Could not geocode location" ... return None
                        /\ ret' = "None" /\ pc' = DonePc
                        /\ adapter_status' =
                             [adapter_status EXCEPT !["national_weather_service"] = "failed"]
                        /\ UNCHANGED <<results, invoked, view, raised>>
                   ELSE AfterCall("national_weather_service",
                                  get_nws_data(IF IsCity(loc) THEN g.latitude ELSE loc.lat,
                                               IF IsCity(loc) THEN g.longitude ELSE loc.lon,
                                               units, o, NWS_CURRENT_KEYS, w),
                                  TRUE, {})

OpenMeteoBlock ==
    /\ AtBlock("open_meteo")
    /\ UNCHANGED <<apis, location, units>> /\ UNCHANGED cacheVars /\ UNCHANGED funcVars
    /\ IF ~ InEnabled("open_meteo") THEN SkipBlock
       ELSE \E georesp \in GeocodeResponses, o \in HttpOutcomes :
            /\ geocode_calls' = IF IsCity(parse_location(location))
                                THEN geocode_calls + 1 ELSE geocode_calls
            /\ AfterCall("open_meteo",
                         get_open_meteo_data(location, units, georesp, o,
                                             OPEN_METEO_CURRENT_KEYS),
                         TRUE, {})

OpenWeatherBlock ==
    /\ AtBlock("open_weather")
    /\ UNCHANGED <<apis, location, units>> /\ UNCHANGED cacheVars /\ UNCHANGED funcVars
    /\ IF ~ InEnabled("open_weather") THEN SkipBlock
       ELSE \E o \in HttpOutcomes :
            /\ UNCHANGED geocode_calls
            /\ AfterCall("open_weather",
                         get_open_weather_data(location, units, o, OPEN_WEATHER_CURRENT_KEYS),
                         TRUE, {})

WeatherApiBlock ==
    /\ AtBlock("weatherapi")
    /\ UNCHANGED <<apis, location, units>> /\ UNCHANGED cacheVars /\ UNCHANGED funcVars
    /\ IF ~ InEnabled("weatherapi") THEN SkipBlock
       ELSE \E o \in HttpOutcomes, o2 \in HttpOutcomes :
            /\ UNCHANGED geocode_calls
            /\ AfterCall("weatherapi",
                         get_weatherapi_data(location, units, o, o2, WEATHERAPI_CURRENT_KEYS),
                         TRUE, {})

WeatherbitBlock ==
    /\ AtBlock("weatherbit")
    /\ UNCHANGED <<apis, location, units>> /\ UNCHANGED cacheVars /\ UNCHANGED funcVars
    /\ IF ~ InEnabled("weatherbit") THEN SkipBlock
       ELSE \E o \in HttpOutcomes :
            /\ UNCHANGED geocode_calls
            /\ AfterCall("weatherbit", get_weatherbit_data(location, units, o), FALSE, {})

\* WeatherView has the attributes app_name, app_version, units, generated_at,
\* timezone, summary and reports; it has no attribute for diagnostics.
WeatherView(u, reports) ==
    [app_name |-> "Bornino Weather App", units |-> u,
     timezone |-> "America/Los_Angeles (GMT-8)", summary |-> None, reports |-> reports]

BuildView ==
    /\ ret = "running" /\ pc = BuildViewPc
    /\ view' = Some(WeatherView(units, results))
    /\ ret' = "view" /\ pc' = DonePc
    /\ UNCHANGED <<apis, location, units, results, invoked, adapter_status,
                   geocode_calls, raised>>
    /\ UNCHANGED cacheVars /\ UNCHANGED funcVars

(***************************************************************************)
(* AccuWeatherClient (accuweather/accuweather_client.py)                   *)
(***************************************************************************)
ClientIds == {1, 2}

MaxCalls == 2      \* get_location_key calls a client makes when it runs alone
MaxConcCalls == 1  \* ... and when two clients share the cache file

TOLERANCE == 100   \* 0.0001 degree in micro-degrees

Keys == {"K1", "K2"}

\* friendly_name arguments: absent (None), empty, or a name.
Aliases == {"Home", "Work"}
FriendlyNames == {None, Some("")} \cup {Some(a) : a \in Aliases}

\* Coordinates a caller asks for ...
QueryPoints == { [lat |-> 38605200, lon |-> -121342720],     \* (38.6052, -121.34272)
                 [lat |-> 38605370, lon |-> -121342715],     \* latitude 0.00012 off
                 [lat |-> 38605250, lon |-> -121342500] }    \* longitude 0.000215 off
\* ... and coordinates the locations API answers with (GeoPosition).
ResponsePoints == { [lat |-> 38605250, lon |-> -121342715],  \* (38.60525, -121.342715)
                    [lat |-> 40000000, lon |-> -100000000] }

Entry(fn, k, pt) == [friendly_name |-> fn, key |-> k, lat |-> pt.lat, lon |-> pt.lon]

NoPoint == [lat |-> None, lon |-> None]
PointArgs == {NoPoint} \cup {[lat |-> Some(q.lat), lon |-> Some(q.lon)] : q \in QueryPoints}

\* Two clients sharing the file resolve names only; a client on its own is
\* asked for every combination of name and coordinates.
Concurrent == Cardinality(clients) > 1
CallBudget == IF Concurrent THEN MaxConcCalls ELSE MaxCalls
FriendlyNameArgs == IF Concurrent THEN {Some(a) : a \in Aliases} ELSE FriendlyNames
PointArgsFor == IF Concurrent THEN {NoPoint} ELSE PointArgs

\* Python truthiness of a friendly_name argument: None and "" are falsy.
Truthy(fn) == fn # None /\ fn # Some("")

\* Mutant: the coordinate test with `or` between latitude and longitude.
EntryMatches_either(entry, friendly_name, lat, lon) ==
    \/ Truthy(friendly_name) /\ entry.friendly_name = friendly_name
    \/ /\ lat # None /\ lon # None
       /\ \/ Abs(entry.lat - The(lat)) < 100
          \/ Abs(entry.lon - The(lon)) < 100

\* The test find_cached_key applies to one entry.
EntryMatches(entry, friendly_name, lat, lon) ==
    \/ Truthy(friendly_name) /\ entry.friendly_name = friendly_name
    \/ /\ lat # None /\ lon # None
       /\ Abs(entry.lat - The(lat)) < TOLERANCE
       /\ Abs(entry.lon - The(lon)) < TOLERANCE

\* find_cached_key: the key of the first entry that matches by name or by
\* coordinates, or None.
find_cached_key(cache, friendly_name, lat, lon) ==
    LET hits == {i \in 1..Len(cache) : EntryMatches(cache[i], friendly_name, lat, lon)}
    IN  IF hits = {} THEN None
        ELSE Some(cache[CHOOSE i \in hits : \A j \in hits : i <= j].key)

\* The cache file. state: "absent" no file, "json" a well-formed list (content),
\* "empty" zero bytes (just truncated by open(..., "w")), "garbage" bytes that
\* json.load rejects.  len: extent of the bytes on disk, counted in entries.
\* A list with more entries serialises to more bytes.
NoFile == [state |-> "absent", content |-> <<>>, len |-> 0]
JsonFile(content) == [state |-> "json", content |-> content, len |-> Len(content)]

\* __init__: load the cache when the file exists, [] on JSONDecodeError or when
\* there is no file.
load_cache(f) == IF f.state = "json" THEN f.content ELSE <<>>

\* open(cache_file, "w") truncates the file.
open_w(f) == [state |-> "empty", content |-> <<>>, len |-> 0]

\* Mutant: the file written before the new entry is in the list.
write_at_0_stale(f, content) ==
    JsonFile(SubSeq(content, 1, Len(content) - 1))

\* json.dump + close: the serialised list is written from offset 0 of the
\* writer's own file position; bytes another writer put beyond its end stay.
write_at_0(f, content) ==
    IF f.len > Len(content)
    THEN [state |-> "garbage", content |-> content, len |-> f.len]
    ELSE JsonFile(content)

\* Mutant: the new entry inserted at the front of the list.
append_entry_front(cache, entry) == <<entry>> \o cache

\* self.cached_keys.append({...})
append_entry(cache, entry) == Append(cache, entry)

\* Outcomes of the request _get_json_or_raise issues, as get_location_key sees
\* them (search: city search, a list; geoposition: one object).
\*   transport    connection error or timeout
\*   unauthorized status 401        forbidden  status 403
\*   http_error   another 4xx/5xx status
\*   bad_json     2xx, body is not JSON (data = {})
\*   no_results   2xx, empty list / null      malformed  2xx, no "Key"
LocationOutcomes == {"ok", "transport", "unauthorized", "forbidden", "http_error",
                     "bad_json", "no_results", "malformed"}

\* before, file: the cache and the cache file when the call started;
\* outcome: how the request of the call was answered ("none": no request);
\* exc, msg: type and message of the exception the call ended with.
NoCall == [status |-> "none", friendly_name |-> None, lat |-> None, lon |-> None,
           before |-> <<>>, file |-> NoFile, result |-> None, net |-> 0,
           outcome |-> "none", exc |-> "none", msg |-> "none"]

Construct(c) ==
    /\ c \in clients /\ cpc[c] = "new"
    /\ cached_keys' = [cached_keys EXCEPT ![c] = load_cache(cache_file)]
    /\ cpc' = [cpc EXCEPT ![c] = "idle"]
    /\ UNCHANGED <<clients, cache_file, call, ncalls>>
    /\ UNCHANGED aggVars /\ UNCHANGED funcVars

\* get_location_key up to the cache lookup: a hit returns at once, a miss goes
\* on to the request (or raises ValueError when there is nothing to look up).
GetLocationKeyWith(c, fn, pt) ==
    /\ c \in clients /\ cpc[c] = "idle" /\ ncalls[c] < CallBudget
    /\   LET cached_key == find_cached_key(cached_keys[c], fn, pt.lat, pt.lon)
             started == [NoCall EXCEPT !.status = "running", !.friendly_name = fn,
                                       !.lat = pt.lat, !.lon = pt.lon,
                                       !.before = cached_keys[c],
                                       !.file = cache_file]
         IN  /\ ncalls' = [ncalls EXCEPT ![c] = @ + 1]
             /\ IF cached_key # None
                THEN /\ call' = [call EXCEPT ![c] =
                                   [started EXCEPT !.status = "returned",
                                                   !.result = cached_key]]
                     /\ UNCHANGED cpc
                ELSE IF pt.lat # None /\ pt.lon # None
                THEN /\ call' = [call EXCEPT ![c] = started]
                     /\ cpc' = [cpc EXCEPT ![c] = "geoposition"]
                ELSE IF Truthy(fn)
                THEN /\ call' = [call EXCEPT ![c] = started]
                     /\ cpc' = [cpc EXCEPT ![c] = "search"]
                ELSE /\ call' = [call EXCEPT ![c] =
                                   [started EXCEPT !.status = "raised",
                                                   !.exc = "ValueError",
                                                   !.msg = "Must provide either friendly_name or lat/lon"]]
                     /\ UNCHANGED cpc
    /\ UNCHANGED <<clients, cache_file, cached_keys>>
    /\ UNCHANGED aggVars /\ UNCHANGED funcVars

\* get_location_key called by any caller: every name and coordinate pair.
GetLocationKey(c) ==
    \E fn \in FriendlyNameArgs, pt \in PointArgsFor : GetLocationKeyWith(c, fn, pt)

\* The exception get_location_key ends with for a request outcome, "none" when
\* it goes on to cache the answer.
location_error(kind, o) ==
    CASE o \in {"transport", "unauthorized", "forbidden", "http_error"} -> "RuntimeError"
      [] o = "bad_json"   -> IF kind = "search" THEN "RuntimeError" ELSE "KeyError"
      [] o = "no_results" -> IF kind = "search" THEN "RuntimeError" ELSE "TypeError"
      [] o = "malformed"  -> "KeyError"
      [] OTHER            -> "none"

\* The message of that exception, without the text it quotes from its cause:
\* _get_json_or_raise has one message for status 403 and one for every
\* RequestException (connection error, timeout, and the HTTPError that
\* raise_for_status makes of any other 4xx/5xx status).
location_message(kind, o) ==
    CASE o = "forbidden" -> "AccuWeather API Key problem"
      [] o \in {"transport", "unauthorized", "http_error"} -> "Request failed"
      [] o = "bad_json"   -> IF kind = "search" THEN "No results returned" ELSE "Key"
      [] o = "no_results" -> IF kind = "search" THEN "No results returned"
                                                ELSE "NoneType is not subscriptable"
      [] o = "malformed"  -> "Key"
      [] OTHER            -> "none"

\* The request of get_location_key and what follows it up to the append.
LocationResponse(c) ==
    /\ c \in clients /\ cpc[c] \in {"geoposition", "search"}
    /\ \E o \in LocationOutcomes, k \in Keys, pt \in ResponsePoints :
         LET e == location_error(cpc[c], o)
         IN  IF e # "none"
             THEN /\ call' = [call EXCEPT ![c].status = "raised", ![c].exc = e,
                                          ![c].msg = location_message(cpc[c], o),
                                          ![c].outcome = o, ![c].net = @ + 1]
                  /\ cpc' = [cpc EXCEPT ![c] = "idle"]
                  /\ UNCHANGED cached_keys
             ELSE /\ cached_keys' = [cached_keys EXCEPT ![c] =
                        append_entry(@, Entry(call[c].friendly_name, k, pt))]
                  /\ call' = [call EXCEPT ![c].result = Some(k), ![c].outcome = o,
                                          ![c].net = @ + 1]
                  /\ cpc' = [cpc EXCEPT ![c] = "save_open"]
    /\ UNCHANGED <<clients, cache_file, ncalls>>
    /\ UNCHANGED aggVars /\ UNCHANGED funcVars

\* _save_cache, first half: open(self.cache_file, "w").
SaveOpen(c) ==
    /\ c \in clients /\ cpc[c] = "save_open"
    /\ cache_file' = open_w(cache_file)
    /\ cpc' = [cpc EXCEPT ![c] = "save_write"]
    /\ UNCHANGED <<clients, cached_keys, call, ncalls>>
    /\ UNCHANGED aggVars /\ UNCHANGED funcVars

\* _save_cache, second half: json.dump and close; get_location_key returns.
SaveWrite(c) ==
    /\ c \in clients /\ cpc[c] = "save_write"
    /\ cache_file' = write_at_0(cache_file, cached_keys[c])
    /\ cpc' = [cpc EXCEPT ![c] = "idle"]
    /\ call' = [call EXCEPT ![c].status = "returned"]
    /\ UNCHANGED <<clients, cached_keys, ncalls>>
    /\ UNCHANGED aggVars /\ UNCHANGED funcVars

\* What get_accuweather_data passes to get_location_key (accuweather_scraper.py
\* line 13): the literal "Home" and no coordinates, whatever location is.
get_accuweather_data_query(loc_arg) ==
    [friendly_name |-> Some("Home"), point |-> NoPoint]

(***************************************************************************)
(* Specifications                                                          *)
(***************************************************************************)
\* Orders in which the entries of config["apis"] may be written.
ReverseOrder == [i \in 1..Len(CallOrder) |-> CallOrder[Len(CallOrder) + 1 - i]]
ApiOrders == {CallOrder, ReverseOrder}

Locations == {<<"38.6052", "-121.34272">>, <<"Sacramento", "CA">>}

ApisOf(order, st) ==
    LET present == SelectSeq(order, LAMBDA p : st[p] # "absent")
    IN  [i \in 1..Len(present) |-> [api |-> present[i], enabled |-> st[present[i]] = "enabled"]]

AggIdle ==
    /\ apis = <<>> /\ location = <<>> /\ units = "imperial"
    /\ pc = DonePc /\ results = <<>> /\ invoked = <<>>
    /\ adapter_status = [p \in Providers |-> "not_run"]
    /\ geocode_calls = 0 /\ ret = "not_called" /\ view = None /\ raised = "none"

FuncIdle ==
    fcall = <<>> /\ fpc = "idle" /\ fresp = None /\ fout = None /\ fnet = 0

CacheStart(cs, f) ==
    /\ clients = cs /\ cache_file = f
    /\ cpc = [c \in ClientIds |-> "new"]
    /\ cached_keys = [c \in ClientIds |-> <<>>]
    /\ call = [c \in ClientIds |-> NoCall]
    /\ ncalls = [c \in ClientIds |-> 0]

InitAgg ==
    /\ \E order \in ApiOrders, st \in [Providers -> {"enabled", "disabled", "absent"}] :
         apis = ApisOf(order, st)
    /\ location \in Locations
    /\ units \in {"imperial", "metric"}
    /\ pc = 1 /\ results = <<>> /\ invoked = <<>>
    /\ adapter_status = [p \in Providers |-> "not_run"]
    /\ geocode_calls = 0 /\ ret = "running" /\ view = None /\ raised = "none"
    /\ CacheStart({}, NoFile)
    /\ FuncIdle

NextAgg ==
    \/ AccuWeatherBlock
    \/ NwsBlock
    \/ OpenMeteoBlock
    \/ OpenWeatherBlock
    \/ WeatherApiBlock
    \/ WeatherbitBlock
    \/ BuildView

SpecAgg == InitAgg /\ [][NextAgg]_vars

\* get_weather runs in one thread that is never suspended for good: as long
\* as a step of it can be taken, one is taken.
SpecAggFair == SpecAgg /\ WF_vars(NextAgg)

\* What the cache file may hold when a run starts.
HomeEntry == Entry(Some("Home"), "K1", [lat |-> 38605250, lon |-> -121342715])

InitialFiles ==
    {NoFile, JsonFile(<<>>), JsonFile(<<HomeEntry>>),
     [state |-> "garbage", content |-> <<>>, len |-> 1]}

InitCache ==
    /\ AggIdle
    /\ \E f \in InitialFiles : CacheStart({1}, f)
    /\ FuncIdle

InitConc ==
    /\ AggIdle
    /\ \E f \in InitialFiles : CacheStart(ClientIds, f)
    /\ FuncIdle

NextCache ==
    \E c \in ClientIds :
        \/ Construct(c)
        \/ GetLocationKey(c)
        \/ LocationResponse(c)
        \/ SaveOpen(c)
        \/ SaveWrite(c)

SpecCache == InitCache /\ [][NextCache]_vars
SpecConc  == InitConc /\ [][NextCache]_vars

\* ---- geocode called on its own ----
GeoStates    == {"CA", "Nevada"}
GeoCountries == {"US", "MX"}

InitGeo ==
    /\ AggIdle
    /\ CacheStart({}, NoFile)
    /\ fcall \in [fn : {"geocode"}, city : {"Sacramento"},
                  state : GeoStates, country : GeoCountries]
    /\ fpc = "start" /\ fresp = None /\ fout = None /\ fnet = 0

\* resp = requests.get(GEOCODE_BASE_URL, params=params, timeout=10): the one
\* request geocode issues.
GeocodeRequest ==
    /\ fpc = "start" /\ fcall.fn = "geocode"
    /\ \E resp \in GeocodeResponses : fresp' = Some(resp)
    /\ fnet' = fnet + 1
    /\ fpc' = "sent"
    /\ UNCHANGED <<fcall, fout>>
    /\ UNCHANGED aggVars /\ UNCHANGED cacheVars

\* The rest of geocode: the answer is examined and the function ends.
GeocodeReturn ==
    /\ fpc = "sent" /\ fcall.fn = "geocode"
    /\ fout' = Some(geocode(fcall.city, fcall.state, fcall.country, The(fresp)))
    /\ fpc' = "done"
    /\ UNCHANGED <<fcall, fresp, fnet>>
    /\ UNCHANGED aggVars /\ UNCHANGED cacheVars

NextGeo == GeocodeRequest \/ GeocodeReturn

SpecGeo == InitGeo /\ [][NextGeo]_vars

\* ---- parse_location called on its own ----
MaxParts == 3

\* Texts that may stand between the commas of a location string.
LocationParts == {"38.6052", "-121.34272", " -121.34272", "Sacramento", "CA", " CA", ""}

\* A string splits into at least one part.
LocationStrings == SeqsUpTo(LocationParts, MaxParts) \ {<<>>}

InitParse ==
    /\ AggIdle
    /\ CacheStart({}, NoFile)
    /\ fcall \in [fn : {"parse_location"}, parts : LocationStrings]
    /\ fpc = "start" /\ fresp = None /\ fout = None /\ fnet = 0

ParseLocation ==
    /\ fpc = "start" /\ fcall.fn = "parse_location"
    /\ fout' = Some(parse_location(fcall.parts))
    /\ fpc' = "done"
    /\ UNCHANGED <<fcall, fresp, fnet>>
    /\ UNCHANGED aggVars /\ UNCHANGED cacheVars

SpecParse == InitParse /\ [][ParseLocation]_vars

\* ---- one provider adapter called on its own ----
Adapters == {"accuweather", "national_weather_service", "open_meteo", "open_weather",
             "weatherapi", "weatherbit"}

\* The adapters that send an API key, read from the environment when their
\* module is imported (or, for AccuWeather, when the client is constructed).
KeyedAdapters == {"accuweather", "open_weather", "weatherapi", "weatherbit"}

Credentials(p) == IF p \in KeyedAdapters THEN {"present", "absent"} ELSE {"not_needed"}

CurrentKeys(p) ==
    CASE p = "national_weather_service" -> NWS_CURRENT_KEYS
      [] p = "open_meteo"               -> OPEN_METEO_CURRENT_KEYS
      [] p = "open_weather"             -> OPEN_WEATHER_CURRENT_KEYS
      [] p = "weatherapi"               -> WEATHERAPI_CURRENT_KEYS
      [] OTHER                          -> {}

\* How one adapter call is answered.  o: the adapter's weather request;
\* o2: WeatherAPI's astronomy request; missing: keys the current-conditions
\* payload lacks; w: whether NWS can write its diagnostic files.
Answer(o, o2, missing, w) == [o |-> o, o2 |-> o2, missing |-> missing, w |-> w]

\* A server that is sent no valid key refuses the request.
AdapterAnswers(p, credential) ==
    IF credential = "absent"
    THEN {Answer(o, "ok", {}, "ok") : o \in {"unauthorized", "transport"}}
    ELSE {Answer(o, "ok", {}, "ok") : o \in HttpOutcomes}
         \cup {Answer("ok", "ok", {k}, "ok") : k \in CurrentKeys(p)}
         \cup (IF p = "weatherapi"
               THEN {Answer("ok", o2, {}, "ok") : o2 \in {"transport", "bad_json"}}
               ELSE {})
         \cup (IF p = "national_weather_service"
               THEN {Answer(o, "ok", {}, "fails") : o \in HttpOutcomes}
               ELSE {})

\* The geocoding answer get_open_meteo_data receives for a city in this
\* specification: one candidate that passes the filters.
GoodGeocode ==
    [kind |-> "results",
     results |-> <<[country_code |-> "US", admin1 |-> "CA", feature_code |-> "PPL",
                    latitude |-> 38581600, longitude |-> -121494400]>>]

\* The adapter's return value for a call c answered by r.  get_nws_data is
\* handed coordinates by its caller.
AdapterResult(c, r) ==
    LET data == CurrentKeys(c.fn) \ r.missing
    IN  CASE c.fn = "accuweather" ->
                 get_accuweather_data(c.location, c.units, r.o)
          [] c.fn = "national_weather_service" ->
                 get_nws_data(Some(38605200), Some(-121342720), c.units, r.o, data, r.w)
          [] c.fn = "open_meteo" ->
                 get_open_meteo_data(c.location, c.units, GoodGeocode, r.o, data)
          [] c.fn = "open_weather" ->
                 get_open_weather_data(c.location, c.units, r.o, data)
          [] c.fn = "weatherapi" ->
                 get_weatherapi_data(c.location, c.units, r.o, r.o2, data)
          [] c.fn = "weatherbit" ->
                 get_weatherbit_data(c.location, c.units, r.o)

\* Requests an adapter issues up to and including its weather request: for a
\* city, get_open_meteo_data geocodes first.
FirstRequests(c) ==
    IF c.fn = "open_meteo" /\ IsCity(parse_location(c.location)) THEN 2 ELSE 1

\* Requests it issues after that one: AccuWeather's current conditions, the
\* five further NWS requests (the last one after the observation is read),
\* WeatherAPI's astronomy request.
LaterRequests(c, r) ==
    LET parsed == ParseBy(get_nws_data_subscripts, NoReads, CurrentKeys(c.fn) \ r.missing)
    IN  CASE c.fn = "accuweather" /\ r.o = "ok" -> 1
          [] c.fn = "national_weather_service" /\ r.o = "ok" /\ r.w = "ok" ->
                 IF parsed.tag = "raise" THEN 4 ELSE 5
          [] c.fn = "weatherapi" /\ r.o = "ok" /\ r.missing = {} -> 1
          [] OTHER -> 0

InitAdapter ==
    /\ AggIdle
    /\ CacheStart({}, NoFile)
    /\ \E p \in Adapters :
         fcall \in [fn : {p}, location : Locations, units : {"imperial", "metric"},
                    credential : Credentials(p)]
    /\ fpc = "start" /\ fresp = None /\ fout = None /\ fnet = 0

\* The adapter builds its query, API key included whatever its value, and
\* issues the request; no adapter looks at the key first.
AdapterRequest ==
    /\ fpc = "start" /\ fcall.fn \in Adapters
    /\ \E r \in AdapterAnswers(fcall.fn, fcall.credential) : fresp' = Some(r)
    /\ fnet' = fnet + FirstRequests(fcall)
    /\ fpc' = "sent"
    /\ UNCHANGED <<fcall, fout>>
    /\ UNCHANGED aggVars /\ UNCHANGED cacheVars

\* The rest of the adapter, up to its return or to the exception leaving it.
AdapterReturn ==
    /\ fpc = "sent" /\ fcall.fn \in Adapters
    /\ AdapterResult(fcall, The(fresp)).tag # "blocked"
    /\ fout' = Some(AdapterResult(fcall, The(fresp)))
    /\ fnet' = fnet + LaterRequests(fcall, The(fresp))
    /\ fpc' = "done"
    /\ UNCHANGED <<fcall, fresp>>
    /\ UNCHANGED aggVars /\ UNCHANGED cacheVars

NextAdapter == AdapterRequest \/ AdapterReturn

SpecAdapter == InitAdapter /\ [][NextAdapter]_vars

\* ---- the conversion functions called on their own ----
TargetSystems == {"imperial", "metric", "standard"}

\* Unit tags: the ones a function knows and one it does not.
TempTags       == {"wmoUnit:degC", "wmoUnit:degF", "wmoUnit:K"}
SpeedTags      == {"wmoUnit:m_s-1", "wmoUnit:km_h-1", "wmoUnit:mph", "wmoUnit:kn"}
PressureTags   == {"wmoUnit:Pa", "wmoUnit:hPa", "wmoUnit:inHg", "wmoUnit:bar"}
VisibilityTags == {"wmoUnit:m", "wmoUnit:mi", "wmoUnit:km"}

\* Values an observation may carry under a tag: null, or a number of the
\* size that unit gives.
TempValues(tag) ==
    CASE tag = "wmoUnit:degC" -> {None, Some(Dec(200, 1)), Some(Dec(-4004, 2))}
      [] tag = "wmoUnit:degF" -> {None, Some(Dec(68, 0)), Some(Dec(-135, 1))}
      [] OTHER                -> {None, Some(Dec(29315, 2))}

SpeedValues(tag) ==
    CASE tag = "wmoUnit:m_s-1"  -> {None, Some(Dec(55, 1)), Some(Dec(1234, 2))}
      [] tag = "wmoUnit:km_h-1" -> {None, Some(Dec(12, 0)), Some(Dec(185, 1))}
      [] tag = "wmoUnit:mph"    -> {None, Some(Dec(25, 0)), Some(Dec(73, 1))}
      [] OTHER                  -> {None, Some(Dec(14, 0))}

PressureValues(tag) ==
    CASE tag = "wmoUnit:Pa"   -> {None, Some(Dec(101325, 0)), Some(Dec(99870, 0))}
      [] tag = "wmoUnit:hPa"  -> {None, Some(Dec(101325, 2)), Some(Dec(1009, 0))}
      [] tag = "wmoUnit:inHg" -> {None, Some(Dec(2992, 2)), Some(Dec(301, 1))}
      [] OTHER                -> {None, Some(Dec(1013, 3))}

VisibilityValues(tag) ==
    CASE tag = "wmoUnit:m"  -> {None, Some(Dec(16093, 0)), Some(Dec(241405, 1))}
      [] tag = "wmoUnit:mi" -> {None, Some(Dec(10, 0)), Some(Dec(25, 1))}
      [] OTHER              -> {None, Some(Dec(16, 0))}

CallsOf(name, tag, values) ==
    [fn : {name}, value : values, unit_tag : {tag}, target : TargetSystems]

ConversionCalls ==
    UNION ({CallsOf("set_temp", t, TempValues(t)) : t \in TempTags}
           \cup {CallsOf("set_speed", t, SpeedValues(t)) : t \in SpeedTags}
           \cup {CallsOf("set_pressure", t, PressureValues(t)) : t \in PressureTags}
           \cup {CallsOf("set_visibility", t, VisibilityValues(t)) : t \in VisibilityTags})

InitUnits ==
    /\ AggIdle
    /\ CacheStart({}, NoFile)
    /\ fcall \in ConversionCalls
    /\ fpc = "start" /\ fresp = None /\ fout = None /\ fnet = 0

\* One conversion function applied to its three arguments.
Converted(name, result) ==
    /\ fpc = "start" /\ fcall.fn = name
    /\ fout' = Some(result)
    /\ fpc' = "done"
    /\ UNCHANGED <<fcall, fresp, fnet>>
    /\ UNCHANGED aggVars /\ UNCHANGED cacheVars

SetTemp ==
    Converted("set_temp", set_temp(fcall.value, fcall.unit_tag, fcall.target))
SetSpeed ==
    Converted("set_speed", set_speed(fcall.value, fcall.unit_tag, fcall.target))
SetPressure ==
    Converted("set_pressure", set_pressure(fcall.value, fcall.unit_tag, fcall.target))
SetVisibility ==
    Converted("set_visibility", set_visibility(fcall.value, fcall.unit_tag, fcall.target))

NextUnits == SetTemp \/ SetSpeed \/ SetPressure \/ SetVisibility

SpecUnits == InitUnits /\ [][NextUnits]_vars

\* ---- set_temp applied three times: to imperial, to metric, to imperial ----
MaxTenths     == 400
MaxHundredths == 60

\* Temperatures as an observation carries them under a tag: Celsius in
\* tenths of a degree, Fahrenheit in hundredths around 68 degrees.
TripValues(tag) ==
    CASE tag = "wmoUnit:degC" -> {Dec(n, 1) : n \in -MaxTenths..MaxTenths}
      [] tag = "wmoUnit:degF" -> {Dec(6800 + k, 2) : k \in -MaxHundredths..MaxHundredths}
      [] OTHER                -> {Dec(29315, 2)}

InitTrip ==
    /\ AggIdle
    /\ CacheStart({}, NoFile)
    /\ \E t \in TempTags : \E v \in TripValues(t) :
           fcall = [fn |-> "set_temp", value |-> Some(v), unit_tag |-> t,
                    target |-> "imperial"]
    /\ fpc = "start" /\ fresp = None /\ fout = None /\ fnet = 0

\* value -> imperial; fresp keeps this first imperial value.
TripToImperial ==
    /\ fpc = "start"
    /\ fout' = set_temp(fcall.value, fcall.unit_tag, "imperial")
    /\ fresp' = fout'
    /\ fpc' = "imperial"
    /\ UNCHANGED <<fcall, fnet>>
    /\ UNCHANGED aggVars /\ UNCHANGED cacheVars

\* imperial -> metric
TripToMetric ==
    /\ fpc = "imperial"
    /\ fout' = set_temp(fout, "wmoUnit:degF", "metric")
    /\ fpc' = "metric"
    /\ UNCHANGED <<fcall, fresp, fnet>>
    /\ UNCHANGED aggVars /\ UNCHANGED cacheVars

\* metric -> imperial again
TripBackToImperial ==
    /\ fpc = "metric"
    /\ fout' = set_temp(fout, "wmoUnit:degC", "imperial")
    /\ fpc' = "done"
    /\ UNCHANGED <<fcall, fresp, fnet>>
    /\ UNCHANGED aggVars /\ UNCHANGED cacheVars

NextTrip == TripToImperial \/ TripToMetric \/ TripBackToImperial

SpecTrip == InitTrip /\ [][NextTrip]_vars

\* ---- set_cloud_cover called on its own ----
MaxLayers == 3

\* What the "amount" of a layer can be: absent, a coverage code in either
\* case, a code the table does not have, the empty text.
LayerAmounts ==
    {None} \cup {Some(a) : a \in {"SKC", "CLR", "FEW", "SCT", "BKN", "OVC",
                                   "ovc", "VV", ""}}

InitCloud ==
    /\ AggIdle
    /\ CacheStart({}, NoFile)
    /\ \E l \in {None} \cup {Some(s) : s \in SeqsUpTo(LayerAmounts, MaxLayers)} :
           fcall = [fn |-> "set_cloud_cover", cloud_layers |-> l]
    /\ fpc = "start" /\ fresp = None /\ fout = None /\ fnet = 0

SetCloudCover ==
    /\ fpc = "start" /\ fcall.fn = "set_cloud_cover"
    /\ fout' = Some(set_cloud_cover(fcall.cloud_layers))
    /\ fpc' = "done"
    /\ UNCHANGED <<fcall, fresp, fnet>>
    /\ UNCHANGED aggVars /\ UNCHANGED cacheVars

SpecCloud == InitCloud /\ [][SetCloudCover]_vars

\* ---- the alerts part of get_nws_data (nws_scraper.py:195-250) ----
MaxAlerts == 2

\* Instants, as integers: now is datetime.now(timezone.utc) at line 208.
AlertNow == 2

\* A feature of the alerts response: its event and its "expires" (None when
\* the property is absent, else Some(instant)).
AlertFeatures ==
    [event : {"Flood Warning", "Heat Advisory"},
     expires : {None} \cup {Some(t) : t \in 1..3}]

\* The loop of lines 207-228: the local list alerts.
CollectAlerts(features, now) ==
    LET Kept(f) == ~ (f.expires # None /\ The(f.expires) < now)
    IN  SelectSeq(features, Kept)

\* WeatherReport() sets alerts to None (weather_shared.py:163); lines 238-244
\* assign source, latitude, longitude, fetched_at and current.
nws_report(latitude, longitude, current_weather) ==
    [source |-> "nws", latitude |-> latitude, longitude |-> longitude,
     current |-> current_weather, alerts |-> None]

InitAlerts ==
    /\ AggIdle
    /\ CacheStart({}, NoFile)
    /\ fcall \in [fn : {"get_nws_data"}, latitude : {38605200}, longitude : {-121342720},
                  units : {"imperial", "metric"}]
    /\ fpc = "start" /\ fresp = None /\ fout = None /\ fnet = 0

\* The alerts request is answered and the loop has run.
AlertsCollected ==
    /\ fpc = "start" /\ fcall.fn = "get_nws_data"
    /\ \E features \in SeqsUpTo(AlertFeatures, MaxAlerts) :
           fresp' = Some([features |-> features,
                          alerts |-> CollectAlerts(features, AlertNow)])
    /\ fnet' = fnet + 1
    /\ fpc' = "sent"
    /\ UNCHANGED <<fcall, fout>>
    /\ UNCHANGED aggVars /\ UNCHANGED cacheVars

\* The report is built and returned.
AlertsReportReturned ==
    /\ fpc = "sent" /\ fcall.fn = "get_nws_data"
    /\ fout' = Some(nws_report(fcall.latitude, fcall.longitude, "WeatherData"))
    /\ fpc' = "done"
    /\ UNCHANGED <<fcall, fresp, fnet>>
    /\ UNCHANGED aggVars /\ UNCHANGED cacheVars

NextAlerts == AlertsCollected \/ AlertsReportReturned

SpecAlerts == InitAlerts /\ [][NextAlerts]_vars

\* ---- get_accuweather_data called twice, one call after the other ----
AccuLocations == {<<"Sacramento", "CA">>, <<"Portland", "OR">>,
                  <<"38.6052", "-121.34272">>}

\* fcall holds the two calls; fpc is "start" during the first, "second"
\* during the second; call i uses client i, constructed inside the call.
AccuCurrent == IF fpc = "start" THEN 1 ELSE 2

InitAccu ==
    /\ AggIdle
    /\ \E f \in InitialFiles : CacheStart(ClientIds, f)
    /\ fcall \in [1..2 -> [fn : {"get_accuweather_data"}, location : AccuLocations,
                           units : {"imperial"}]]
    /\ fpc = "start" /\ fresp = None /\ fout = None /\ fnet = 0

AccuRunning == fpc \in {"start", "second"}

\* client = AccuWeatherClient()
AccuConstruct == AccuRunning /\ Construct(AccuCurrent)

\* location_key = client.get_location_key("Home")
AccuGetLocationKey ==
    /\ AccuRunning /\ ncalls[AccuCurrent] = 0
    /\ LET q == get_accuweather_data_query(fcall[AccuCurrent].location)
       IN  GetLocationKeyWith(AccuCurrent, q.friendly_name, q.point)

AccuLocationResponse == AccuRunning /\ LocationResponse(AccuCurrent)

AccuSaveOpen == AccuRunning /\ SaveOpen(AccuCurrent)

AccuSaveWrite == AccuRunning /\ SaveWrite(AccuCurrent)

\* client.get_current_conditions(location_key) and the return, or the
\* exception of get_location_key leaving the function.
AccuReturn ==
    /\ AccuRunning /\ cpc[AccuCurrent] = "idle"
    /\ call[AccuCurrent].status \in {"returned", "raised"}
    /\ \E o \in HttpOutcomes :
         LET c == fcall[AccuCurrent]
             q == call[AccuCurrent]
         IN  IF q.status = "raised"
             THEN /\ fout' = Some(R_raise(q.exc))
                  /\ fnet' = fnet + q.net
             ELSE /\ fout' = Some(get_accuweather_data(c.location, c.units, o))
                  /\ fnet' = fnet + q.net + 1
    /\ fpc' = IF fpc = "start" THEN "second" ELSE "done"
    /\ UNCHANGED <<fcall, fresp>>
    /\ UNCHANGED aggVars /\ UNCHANGED cacheVars

NextAccu ==
    \/ AccuConstruct
    \/ AccuGetLocationKey
    \/ AccuLocationResponse
    \/ AccuSaveOpen
    \/ AccuSaveWrite
    \/ AccuReturn

SpecAccu == InitAccu /\ [][NextAccu]_vars

\* ---- one client asked twice for the same query ----
\* key1 = client.get_location_key(q); key2 = client.get_location_key(q).
\* fresp keeps the first call as it ended, fout the second.
InitRepeat ==
    /\ AggIdle
    /\ \E f \in InitialFiles : CacheStart({1}, f)
    /\ fcall \in [fn : {"get_location_key"}, friendly_name : FriendlyNames,
                  point : PointArgs]
    /\ fpc = "start" /\ fresp = None /\ fout = None /\ fnet = 0

RepeatRunning == fpc \in {"start", "second"} /\ fcall.fn = "get_location_key"

RepeatConstruct == RepeatRunning /\ Construct(1)

RepeatGetLocationKey ==
    /\ RepeatRunning
    /\ ncalls[1] = (IF fpc = "start" THEN 0 ELSE 1)
    /\ GetLocationKeyWith(1, fcall.friendly_name, fcall.point)

RepeatLocationResponse == RepeatRunning /\ LocationResponse(1)

RepeatSaveOpen == RepeatRunning /\ SaveOpen(1)

RepeatSaveWrite == RepeatRunning /\ SaveWrite(1)

\* A call has ended: the caller keeps what it got.
RepeatCallEnded ==
    /\ RepeatRunning /\ cpc[1] = "idle"
    /\ call[1].status \in {"returned", "raised"}
    /\ ncalls[1] = (IF fpc = "start" THEN 1 ELSE 2)
    /\ IF fpc = "start"
       THEN fresp' = Some(call[1]) /\ fpc' = "second" /\ UNCHANGED fout
       ELSE fout' = Some(call[1]) /\ fpc' = "done" /\ UNCHANGED fresp
    /\ fnet' = fnet + call[1].net
    /\ UNCHANGED fcall
    /\ UNCHANGED aggVars /\ UNCHANGED cacheVars

NextRepeat ==
    \/ RepeatConstruct
    \/ RepeatGetLocationKey
    \/ RepeatLocationResponse
    \/ RepeatSaveOpen
    \/ RepeatSaveWrite
    \/ RepeatCallEnded

SpecRepeat == InitRepeat /\ [][NextRepeat]_vars

\* ---- a parse function applied to one payload for both target systems ----
MaxMissing == 1

ParseFunctions ==
    {"parse_open_meteo_data", "parse_open_weather_map_data", "parse_weatherapi_data"}

PayloadKeysOf(fn) ==
    CASE fn = "parse_open_meteo_data"       -> OPEN_METEO_CURRENT_KEYS
      [] fn = "parse_open_weather_map_data" -> OPEN_WEATHER_CURRENT_KEYS
      [] fn = "parse_weatherapi_data"       -> WEATHERAPI_CURRENT_KEYS

\* The provider's payload, complete or lacking up to MaxMissing keys.
Payloads(fn) ==
    {PayloadKeysOf(fn) \ m : m \in {s \in SUBSET PayloadKeysOf(fn) :
                                       Cardinality(s) <= MaxMissing}}

Parsed(fn, data, units_arg) ==
    CASE fn = "parse_open_meteo_data"       -> parse_open_meteo_data(data, units_arg)
      [] fn = "parse_open_weather_map_data" -> parse_open_weather_map_data(data, units_arg)
      [] fn = "parse_weatherapi_data"       -> parse_weatherapi_data(data, units_arg)

InitNorm ==
    /\ AggIdle
    /\ CacheStart({}, NoFile)
    /\ \E fn \in ParseFunctions : fcall \in [fn : {fn}, data : Payloads(fn)]
    /\ fpc = "start" /\ fresp = None /\ fout = None /\ fnet = 0

\* parse(data, "imperial"); fresp keeps its outcome.
ParseImperial ==
    /\ fpc = "start" /\ fcall.fn \in ParseFunctions
    /\ fresp' = Some(Parsed(fcall.fn, fcall.data, "imperial"))
    /\ fpc' = "imperial"
    /\ UNCHANGED <<fcall, fout, fnet>>
    /\ UNCHANGED aggVars /\ UNCHANGED cacheVars

\* parse(data, "metric"); fout keeps its outcome.
ParseMetric ==
    /\ fpc = "imperial" /\ fcall.fn \in ParseFunctions
    /\ fout' = Some(Parsed(fcall.fn, fcall.data, "metric"))
    /\ fpc' = "done"
    /\ UNCHANGED <<fcall, fresp, fnet>>
    /\ UNCHANGED aggVars /\ UNCHANGED cacheVars

NextNorm == ParseImperial \/ ParseMetric

SpecNorm == InitNorm /\ [][NextNorm]_vars

\* ---- set_speed applied to one wind speed given in each recognized unit ----
MaxSpeedTenths == 400

\* The wind speed n/10 m/s as an observation carries it under each tag, to
\* one decimal: in m/s, in km/h (x 3.6) and in mph (x 2.23694).
SpeedIn(n, tag) ==
    CASE tag = "wmoUnit:m_s-1"  -> Dec(n, 1)
      [] tag = "wmoUnit:km_h-1" -> Round(Mul(Dec(n, 1), Dec(36, 1)), 1)
      [] tag = "wmoUnit:mph"    -> Round(Mul(Dec(n, 1), Dec(223694, 5)), 1)

SourceOrder == <<"wmoUnit:m_s-1", "wmoUnit:km_h-1", "wmoUnit:mph">>

InitSpeed ==
    /\ AggIdle
    /\ CacheStart({}, NoFile)
    /\ fcall \in [fn : {"set_speed"}, tenths : 0..MaxSpeedTenths,
                  target : {"imperial", "metric"}]
    /\ fpc = "start" /\ fresp = None /\ fout = Some(<<>>) /\ fnet = 0

\* set_speed(value, tag, target) for the next tag of SourceOrder; fout lists
\* the values returned so far.
SpeedConverted ==
    /\ fpc = "start" /\ fcall.fn = "set_speed"
    /\ Len(The(fout)) < Len(SourceOrder)
    /\ LET tag == SourceOrder[Len(The(fout)) + 1]
       IN  fout' = Some(Append(The(fout),
                        The(set_speed(Some(SpeedIn(fcall.tenths, tag)), tag,
                                      fcall.target))))
    /\ UNCHANGED <<fcall, fpc, fresp, fnet>>
    /\ UNCHANGED aggVars /\ UNCHANGED cacheVars

SpecSpeed == InitSpeed /\ [][SpeedConverted]_vars

\* ---- manage_locations (weather_cli.py): the interactive location manager ----
MaxOps == 3

CliAliases   == {"home", "work"}
CliLocations == {"Sacramento, CA", "Portland, OR"}

\* state["locations"]: a dict from aliases to location strings.
LocationDicts == UNION {[d -> CliLocations] : d \in SUBSET CliAliases}

\* The settings the manager leaves well-formed when it starts from them:
\* default_location unset or an alias of locations, active_location unset or
\* an alias of locations whose value is state["location"].
SettingsStates ==
    {s \in [locations : LocationDicts,
            default_location : {None} \cup {Some(a) : a \in CliAliases},
            active_location : {None} \cup {Some(a) : a \in CliAliases},
            location : {None} \cup {Some(l) : l \in CliLocations}] :
        /\ s.default_location # None => The(s.default_location) \in DOMAIN s.locations
        /\ s.active_location # None =>
              /\ The(s.active_location) \in DOMAIN s.locations
              /\ s.location = Some(s.locations[The(s.active_location)])}

InitCli ==
    /\ AggIdle
    /\ CacheStart({}, NoFile)
    /\ fcall \in [fn : {"manage_locations"}, state : SettingsStates]
    /\ fpc = "start" /\ fresp = None /\ fout = None /\ fnet = 0

\* Lines 117-119: locations is state's own dict; default_loc and active_loc
\* are read once.  fout is the state dict as the function has changed it,
\* fresp the two locals, fnet the menu choices handled.
CliEnter ==
    /\ fpc = "start" /\ fcall.fn = "manage_locations"
    /\ fout' = Some(fcall.state)
    /\ fresp' = Some([default_loc |-> fcall.state.default_location,
                      active_loc  |-> IF fcall.state.active_location # None
                                      THEN fcall.state.active_location
                                      ELSE fcall.state.default_location])
    /\ fpc' = "menu"
    /\ UNCHANGED <<fcall, fnet>>
    /\ UNCHANGED aggVars /\ UNCHANGED cacheVars

CliAtMenu == fpc = "menu" /\ fcall.fn = "manage_locations" /\ fnet < MaxOps

CliState == The(fout)

CliHandled(state) ==
    /\ fout' = Some(state)
    /\ fnet' = fnet + 1
    /\ UNCHANGED <<fcall, fpc>>
    /\ UNCHANGED aggVars /\ UNCHANGED cacheVars

\* del locations[alias]
DictWithout(d, alias) == [a \in DOMAIN d \ {alias} |-> d[a]]

\* locations[alias] = val
DictWith(d, alias, val) ==
    [a \in DOMAIN d \cup {alias} |-> IF a = alias THEN val ELSE d[a]]

\* choice "a"
CliAdd ==
    /\ CliAtMenu
    /\ \E alias \in CliAliases, val \in CliLocations :
         CliHandled([CliState EXCEPT
                        !.locations = DictWith(@, alias, val),
                        !.default_location =
                            IF The(fresp).default_loc = None THEN Some(alias) ELSE @])
    /\ UNCHANGED fresp

\* choice "r"
CliRemove ==
    /\ CliAtMenu
    /\ \E alias \in CliAliases :
         IF alias \in DOMAIN CliState.locations
         THEN CliHandled([CliState EXCEPT
                             !.locations = DictWithout(@, alias),
                             !.default_location =
                                 IF @ = Some(alias) THEN None ELSE @])
         ELSE CliHandled(CliState)
    /\ UNCHANGED fresp

\* choice "s"
CliSetDefault ==
    /\ CliAtMenu
    /\ \E alias \in CliAliases :
         IF alias \in DOMAIN CliState.locations
         THEN CliHandled([CliState EXCEPT !.default_location = Some(alias)])
         ELSE CliHandled(CliState)
    /\ UNCHANGED fresp

\* choice "c"
CliSetActive ==
    /\ CliAtMenu
    /\ \E alias \in CliAliases :
         IF alias \in DOMAIN CliState.locations
         THEN /\ CliHandled([CliState EXCEPT
                                !.active_location = Some(alias),
                                !.location = Some(CliState.locations[alias])])
              /\ fresp' = Some([The(fresp) EXCEPT !.active_loc = Some(alias)])
         ELSE CliHandled(CliState) /\ UNCHANGED fresp

\* choice "d": state["locations"] = locations, save_settings(state), return.
CliDone ==
    /\ fpc = "menu" /\ fcall.fn = "manage_locations"
    /\ fpc' = "done"
    /\ UNCHANGED <<fcall, fresp, fout, fnet>>
    /\ UNCHANGED aggVars /\ UNCHANGED cacheVars

NextCli ==
    \/ CliEnter
    \/ CliAdd
    \/ CliRemove
    \/ CliSetDefault
    \/ CliSetActive
    \/ CliDone

SpecCli == InitCli /\ [][NextCli]_vars

(***************************************************************************)
(* Claims about get_weather, checked under SpecAgg                         *)
(***************************************************************************)
Finished == ret \in {"view", "None", "raised"}

EnabledSet == {p \in Providers : InEnabled(p)}
Succeeded  == {p \in Providers : adapter_status[p] = "succeeded"}
Failed     == {p \in Providers : adapter_status[p] = "failed"}

Reports == IF view = None THEN <<>> ELSE The(view).reports

\* The diagnostic entries a view carries: WeatherView has no attribute for
\* them and get_weather stores none (it only prints), so there are never any.
Diagnostics(v) == <<>>

\* Location resolution failed for p: p ended as failed before its adapter was
\* called (reverse geocode for accuweather, forward geocode for NWS).
ResolutionFailed(p) ==
    /\ p \in {"accuweather", "national_weather_service"}
    /\ adapter_status[p] = "failed"
    /\ p \notin Range(invoked)

\* C1: get_weather always returns normally: no exception leaves it, and once
\* it has finished every enabled provider has been dealt with (invoked, or
\* given up on), whatever happened inside the other providers' adapters.
C1_NoFailurePropagates ==
    /\ raised = "none"
    /\ Finished => \A p \in EnabledSet : adapter_status[p] # "not_run"

\* C2: the view get_weather returns holds exactly one report per enabled
\* provider whose adapter succeeded and exactly one diagnostic entry per
\* enabled provider whose adapter failed.
C2_OneReportOrDiagnosticEach ==
    ret = "view" =>
        /\ Len(Reports) = Cardinality(Succeeded)
        /\ Len(Diagnostics(view)) = Cardinality(Failed)

\* C3: every element of the returned view's reports is a provider report with
\* a non-null current reading; a failed provider leaves no element.
C3_NoNullPlaceholder ==
    ret = "view" =>
        \A i \in 1..Len(Reports) :
            Reports[i].tag = "report" /\ Reports[i].current # "null"

\* C4: when location resolution fails for a provider (forward geocode for NWS,
\* reverse geocode for AccuWeather), get_weather still returns a view and has
\* invoked every other enabled provider.
C4_ResolutionFailureSkipsOnlyThatProvider ==
    \A p \in Providers :
        (Finished /\ ResolutionFailed(p)) =>
            /\ ret = "view"
            /\ \A q \in EnabledSet \ {p} : q \in Range(invoked)

\* Position of a provider among the entries of config["apis"].
ConfigPos(p) == CHOOSE i \in 1..Len(apis) : apis[i].api = p

\* C5 as stated: providers are invoked in the order of the entries of the
\* apis map.
C5_InvokedInConfiguredOrder ==
    \A i, j \in 1..Len(invoked) :
        i < j => ConfigPos(invoked[i]) < ConfigPos(invoked[j])

\* The order of the provider blocks in the text of get_weather.
BlockRank(p) ==
    CASE p = "accuweather"              -> 1
      [] p = "national_weather_service" -> 2
      [] p = "open_meteo"               -> 3
      [] p = "open_weather"             -> 4
      [] p = "weatherapi"               -> 5
      [] p = "weatherbit"               -> 6

\* The provider a report comes from, by its source attribute.
ProviderOfSource(src) ==
    CASE src = "nws"          -> "national_weather_service"
      [] src = "open_meteo"   -> "open_meteo"
      [] src = "open_weather" -> "open_weather"
      [] src = "WeatherApi"   -> "weatherapi"

ReportIdx == {i \in 1..Len(Reports) : Reports[i].tag = "report"}

\* C5 (amended): get_weather invokes the enabled providers in the fixed order
\* accuweather, national_weather_service, open_meteo, open_weather,
\* weatherapi, weatherbit, whatever the order of the entries of the apis map,
\* and the reports of the returned view appear in that invocation order.
C5_InvokedInFixedOrder ==
    /\ \A i, j \in 1..Len(invoked) :
           i < j => BlockRank(invoked[i]) < BlockRank(invoked[j])
    /\ \A i, j \in ReportIdx :
           i < j => /\ ProviderOfSource(Reports[i].source) \in Range(invoked)
                    /\ ProviderOfSource(Reports[j].source) \in Range(invoked)
                    /\ BlockRank(ProviderOfSource(Reports[i].source))
                         < BlockRank(ProviderOfSource(Reports[j].source))

\* Two providers were invoked against their configured order and both of their
\* reports are in the returned view.
C5_Witness ==
    /\ ret = "view"
    /\ Len(apis) >= 2 /\ apis[1].api = "weatherbit"
    /\ Len(invoked) >= 2
    /\ Cardinality(ReportIdx) >= 2

C19_EveryCallReturns == <>Finished

\* The safety half of C19: get_weather is never left waiting without bound
\* inside a request.
C19_NeverBlocked == ret # "blocked"

(***************************************************************************)
(* Claims about the location cache, checked under SpecCache and SpecConc   *)
(***************************************************************************)
\* C7: once two clients sharing the cache file have both resolved a location
\* that missed the cache, the file is a well-formed list holding every entry
\* each of them has (those loaded and the one appended).
C7_NoLostUpdate ==
    (\A c \in clients :
        cpc[c] = "idle" /\ call[c].status = "returned" /\ call[c].net = 1) =>
        /\ cache_file.state = "json"
        /\ \A c \in clients : Range(cached_keys[c]) \subseteq Range(cache_file.content)

\* The matching rule as the claim states it: the alias given equals the
\* entry's alias, or both coordinates are within 1e-4 degree (100 micro-degrees).
\* An empty alias counts as no alias, as in get_location_key itself.
C8_Match(entry, q) ==
    \/ q.friendly_name # None /\ q.friendly_name # Some("")
         /\ entry.friendly_name = q.friendly_name
    \/ q.lat # None /\ q.lon # None
         /\ Abs(entry.lat - The(q.lat)) < 100
         /\ Abs(entry.lon - The(q.lon)) < 100

C8_Hits(q) == {i \in 1..Len(q.before) : C8_Match(q.before[i], q)}

\* C8: a get_location_key call returns from the cache, without a network
\* request, exactly when some cached entry matches by alias or by coordinates
\* within the tolerance, and the key returned is that of the first such entry.
C8_LookupMatchesByAliasOrTolerance ==
    \A c \in clients :
        call[c].status # "none" =>
            /\ (C8_Hits(call[c]) # {})
                   <=> (call[c].status = "returned" /\ call[c].net = 0)
            /\ C8_Hits(call[c]) # {} =>
                   \E i \in C8_Hits(call[c]) :
                       /\ \A j \in C8_Hits(call[c]) : i <= j
                       /\ call[c].result = Some(call[c].before[i].key)

\* The spec's example: (38.6052, -121.34272) against an entry at
\* (38.60525, -121.342715), answered from the cache.
C8_Witness ==
    \E c \in clients :
        /\ call[c].status = "returned" /\ call[c].net = 0
        /\ call[c].friendly_name = None
        /\ call[c].lat = Some(38605200) /\ call[c].lon = Some(-121342720)
        /\ \E i \in 1..Len(call[c].before) :
               /\ call[c].before[i].lat = 38605250
               /\ call[c].before[i].lon = -121342715
               /\ call[c].result = Some(call[c].before[i].key)

\* C9: a client's cache only grows at its end: every step leaves the entries
\* it held in place and unmodified.
C9_AppendOnly ==
    [][\A c \in ClientIds : IsPrefix(cached_keys[c], cached_keys'[c])]_vars

\* A client that held entries, appended one and then had a resolution fail.
C9_Witness ==
    \E c \in clients :
        /\ ncalls[c] >= 2
        /\ Len(cached_keys[c]) >= 2
        /\ call[c].status = "raised" /\ call[c].net = 1

\* C10: after a call that missed the cache and whose request succeeded, the
\* cache is the previous cache plus one entry (alias asked for, key, latitude
\* and longitude answered), the file holds exactly the cache, and the key
\* returned is the new entry's.
C10_MissAppendsAndPersists ==
    \A c \in clients :
        (cpc[c] = "idle" /\ call[c].status = "returned" /\ call[c].net = 1) =>
            /\ Len(cached_keys[c]) = Len(call[c].before) + 1
            /\ SubSeq(cached_keys[c], 1, Len(call[c].before)) = call[c].before
            /\ LET e == cached_keys[c][Len(cached_keys[c])]
               IN  /\ e.friendly_name = call[c].friendly_name
                   /\ call[c].result = Some(e.key)
                   /\ [lat |-> e.lat, lon |-> e.lon] \in ResponsePoints
            /\ cache_file.state = "json"
            /\ cache_file.content = cached_keys[c]

\* A miss on a non-empty cache, resolved and saved.
C10_Witness ==
    \E c \in clients :
        /\ cpc[c] = "idle" /\ call[c].status = "returned" /\ call[c].net = 1
        /\ call[c].before # <<>>
        /\ cache_file.content = cached_keys[c]

(***************************************************************************)
(* Claims about location resolution, checked under SpecGeo and SpecCache   *)
(***************************************************************************)
GeocodeDone == fpc = "done" /\ fcall.fn = "geocode"

\* The geocoding search found nothing: an empty results list, or an answer that
\* carries no results list at all.
GeocodeZeroResults ==
    \/ The(fresp).kind = "results" /\ The(fresp).results = <<>>
    \/ The(fresp).kind = "no_results_key"

\* The AccuWeather city search of client c found nothing.
SearchZeroResults(c) ==
    /\ call[c].status = "raised" /\ call[c].outcome = "no_results"
    /\ call[c].lat = None

\* C11, AccuWeather city search: zero results end get_location_key with its
\* "No results returned" error after one request, and leave the cache and the
\* cache file as they were.
C11_SearchNotFound ==
    \A c \in clients :
        SearchZeroResults(c) =>
            /\ call[c].exc = "RuntimeError" /\ call[c].msg = "No results returned"
            /\ call[c].net = 1
            /\ cached_keys[c] = call[c].before
            /\ cache_file = call[c].file

\* C11: when the geocoding search returns zero results, resolution ends with
\* the resolver's not-found outcome (geocode answers None, get_location_key
\* raises "No results returned"), exactly one request was issued, and the
\* cache and the cache file are unchanged; an Open-Meteo answer without a
\* results list included.
C11_ZeroResultsIsNotFound ==
    /\ C11_SearchNotFound
    /\ (GeocodeDone /\ GeocodeZeroResults) =>
           /\ fout = Some(G_None)
           /\ fnet = 1
           /\ cache_file = NoFile /\ \A c \in ClientIds : cached_keys[c] = <<>>

\* An AccuWeather city search that found nothing, on a client holding entries.
C11_SearchWitness ==
    \E c \in clients : SearchZeroResults(c) /\ call[c].before # <<>>
\* The condition a caller of get_location_key is handed: the type of the
\* exception and its message.
Condition(e, m) == [exc |-> e, msg |-> m]

\* Conditions get_location_key ends with when the search finds nothing and
\* when the request fails in transport.
NotFoundConditions ==
    {Condition(location_error(k, "no_results"), location_message(k, "no_results")) :
        k \in {"search", "geoposition"}}

TransportConditions ==
    {Condition(location_error(k, "transport"), location_message(k, "transport")) :
        k \in {"search", "geoposition"}}

\* C12: a get_location_key call that was answered 401 or 403 ends with a
\* condition that is neither a condition of zero results nor a condition of a
\* transport failure.
C12_UnauthorizedIsDistinct ==
    \A c \in clients :
        (call[c].status = "raised" /\ call[c].outcome \in {"unauthorized", "forbidden"}) =>
            /\ Condition(call[c].exc, call[c].msg) \notin NotFoundConditions
            /\ Condition(call[c].exc, call[c].msg) \notin TransportConditions

\* The part of C12 that holds: status 403 has a message of its own.
C12_ForbiddenIsDistinct ==
    \A c \in clients :
        (call[c].status = "raised" /\ call[c].outcome = "forbidden") =>
            /\ Condition(call[c].exc, call[c].msg) \notin NotFoundConditions
            /\ Condition(call[c].exc, call[c].msg) \notin TransportConditions
\* The three filters as the claim states them, for the call in progress.
C14_Passes(r) ==
    /\ r.country_code = fcall.country
    /\ r.admin1 = fcall.state
    /\ r.feature_code = "PPL"

C14_Passing == {i \in 1..Len(The(fresp).results) : C14_Passes(The(fresp).results[i])}

\* C14: from an answer that lists candidates, geocode returns the first
\* candidate, in the order of the answer, that has the requested country, the
\* requested region and feature type PPL, and returns None when no candidate
\* has all three; it never returns a candidate that fails one of them.
C14_FirstFilteredCandidate ==
    (GeocodeDone /\ The(fresp).kind = "results") =>
        IF C14_Passing = {}
        THEN fout = Some(G_None)
        ELSE \E i \in C14_Passing :
                 /\ \A j \in C14_Passing : i <= j
                 /\ The(fout).tag = "dict"
                 /\ The(fout).latitude = Some(The(fresp).results[i].latitude)
                 /\ The(fout).longitude = Some(The(fresp).results[i].longitude)

\* An answer whose first candidate fails a filter and whose second passes all
\* three: the second is returned.
C14_Witness ==
    /\ GeocodeDone /\ The(fresp).kind = "results"
    /\ Len(The(fresp).results) = 2
    /\ C14_Passing = {2}
    /\ The(fresp).results[1].feature_code # "PPL"
    /\ The(fout).tag = "dict"

\* An answer whose candidates all fail: nothing is returned.
C14_WitnessNone ==
    /\ GeocodeDone /\ The(fresp).kind = "results"
    /\ Len(The(fresp).results) = 2
    /\ C14_Passing = {}
    /\ fout = Some(G_None)

\* An answer with two different candidates that both pass: the first is returned.
C14_WitnessFirst ==
    /\ GeocodeDone /\ The(fresp).kind = "results"
    /\ C14_Passing = {1, 2}
    /\ The(fresp).results[1] # The(fresp).results[2]
    /\ The(fout).latitude = Some(The(fresp).results[1].latitude)

(***************************************************************************)
(* Claims about parse_location, checked under SpecParse                    *)
(***************************************************************************)
ParseDone == fpc = "done" /\ fcall.fn = "parse_location"

\* Texts Python's float() accepts (it ignores surrounding blanks).
C13_IsFloat(part) == part \in {"38.6052", "-121.34272", " -121.34272"}

C13_Trimmed(part) == IF part = " -121.34272" THEN "-121.34272"
                     ELSE IF part = " CA" THEN "CA" ELSE part

\* C13: parse_location classifies every input: two parts that both read as
\* floats give coordinates (lat and lon set, city and state null), any other
\* two parts give place and region (city and state set, lat and lon null),
\* one part or three and more are a format error; coordinates and
\* place/region are never both set.
C13_ParseLocationClassifies ==
    ParseDone =>
        LET parts == fcall.parts
            r     == The(fout)
            both  == Len(parts) = 2 /\ C13_IsFloat(parts[1]) /\ C13_IsFloat(parts[2])
        IN  /\ both =>
                  /\ r.error = "none"
                  /\ r.lat # None /\ r.lon # None /\ r.city = None /\ r.state = None
            /\ (Len(parts) = 2 /\ ~ both) =>
                  /\ r.error = "none"
                  /\ r.city = Some(C13_Trimmed(parts[1]))
                  /\ r.state = Some(C13_Trimmed(parts[2]))
                  /\ r.lat = None /\ r.lon = None
            /\ Len(parts) # 2 =>
                  /\ r.error = "ValueError"
                  /\ r.lat = None /\ r.lon = None /\ r.city = None /\ r.state = None
            /\ ~ ((r.lat # None \/ r.lon # None) /\ (r.city # None \/ r.state # None))
            /\ parts = <<"38.6052", "-121.34272">> =>
                  r.lat = Some(38605200) /\ r.lon = Some(-121342720)

\* The three examples: "38.6052,-121.34272" parsed as coordinates ...
C13_Witness ==
    /\ ParseDone
    /\ fcall.parts = <<"38.6052", "-121.34272">>
    /\ The(fout).lat = Some(38605200)

\* ... "Sacramento,CA" as place and region ...
C13_WitnessCity ==
    /\ ParseDone
    /\ fcall.parts = <<"Sacramento", "CA">>
    /\ The(fout).city = Some("Sacramento")

\* ... and a string with three parts rejected.
C13_WitnessError ==
    /\ ParseDone
    /\ Len(fcall.parts) = 3
    /\ The(fout).error = "ValueError"
(***************************************************************************)
(* Claims about the provider adapters, checked under SpecAdapter           *)
(***************************************************************************)
AdapterDone == fpc = "done" /\ fcall.fn \in Adapters

\* The adapters that build a WeatherData from a payload.
ParsingAdapters == {"national_weather_service", "open_meteo", "open_weather", "weatherapi"}

\* The keys of each provider's payload that carry the required fields
\* temperature, condition and timestamp.
RequiredKeys(p, u) ==
    CASE p = "national_weather_service" -> {"temperature", "textDescription", "timestamp"}
      [] p = "open_meteo"   -> {"temperature", "weathercode", "time"}
      [] p = "open_weather" -> {"main.temp", "weather", "dt"}
      [] p = "weatherapi"   -> {IF u = "imperial" THEN "temp_f" ELSE "temp_c",
                                "condition", "last_updated"}
      [] OTHER              -> {}

\* The call was answered with a well-formed payload lacking exactly the keys
\* in `missing`, every request and every file write succeeding.
PayloadLacks(missing) ==
    /\ AdapterDone /\ fcall.fn \in ParsingAdapters
    /\ The(fresp) = Answer("ok", "ok", missing, "ok")

\* What the same call hands back on a transport failure, a non-success status
\* and an unparseable body.
OtherFailures ==
    {AdapterResult(fcall, Answer(o, "ok", {}, "ok")) :
        o \in {"transport", "http_error", "unauthorized", "bad_json"}}

\* C15: an adapter given a payload that lacks a required field (temperature,
\* condition or timestamp) fails, and with a condition that differs from what
\* it reports for a transport failure, a non-success status and an
\* unparseable body.
C15_MissingRequiredIsMalformed ==
    \A k \in RequiredKeys(fcall.fn, fcall.units) :
        PayloadLacks({k}) =>
            /\ The(fout).tag = "raise"
            /\ The(fout) \notin OtherFailures

\* C16: an adapter given a payload that lacks one field other than
\* temperature, condition and timestamp succeeds: it returns a report, whose
\* reading has no attribute set that the complete payload would not set.
C16_MissingOptionalSucceeds ==
    \A k \in CurrentKeys(fcall.fn) \ RequiredKeys(fcall.fn, fcall.units) :
        PayloadLacks({k}) =>
            /\ The(fout).tag = "report"
            /\ The(fout).set \subseteq
                   AdapterResult(fcall, Answer("ok", "ok", {}, "ok")).set

\* C17: when the diagnostic files cannot be written, get_nws_data hands back
\* what it hands back for the same answers when they can.
C17_DiagnosticWritesBestEffort ==
    (AdapterDone /\ fcall.fn = "national_weather_service" /\ The(fresp).w = "fails") =>
        fout = Some(AdapterResult(fcall, [The(fresp) EXCEPT !.w = "ok"]))

\* C18: an adapter whose API key is absent issues no HTTP request, and ends
\* with a configuration error.
C18_NoRequestWithoutCredential ==
    (fcall.fn \in Adapters /\ fcall.credential = "absent") =>
        /\ fnet = 0
        /\ AdapterDone => The(fout).tag = "raise" /\ The(fout).exc = "ConfigurationError"
(***************************************************************************)
(* Claims about the unit conversions, checked under SpecUnits              *)
(***************************************************************************)
ConversionDone ==
    fpc = "done" /\ fcall.fn \in {"set_temp", "set_speed", "set_pressure", "set_visibility"}

\* The value a finished conversion returned: None or Some(number).
Returned == The(fout)

IsNumber(x) == x.n \in Int /\ x.e \in Nat

\* C20: set_temp, set_speed, set_pressure and set_visibility return null for
\* a null value, whatever the unit tag and the target system, and a number
\* (never null) for a number.
C20_NullInNullOut ==
    ConversionDone =>
        /\ fcall.value = None => Returned = None
        /\ fcall.value # None => Returned # None /\ IsNumber(The(Returned))

\* A null value converted with a recognized tag: null comes back ...
C20_Witness ==
    /\ ConversionDone
    /\ fcall.value = None /\ fcall.unit_tag = "wmoUnit:Pa" /\ fcall.target = "imperial"
    /\ Returned = None

\* ... and 20.0 degC converted to imperial: 68.0 comes back.
C20_WitnessNumber ==
    /\ ConversionDone
    /\ fcall.fn = "set_temp" /\ fcall.value = Some(Dec(200, 1))
    /\ fcall.unit_tag = "wmoUnit:degC" /\ fcall.target = "imperial"
    /\ Returned = Some(Dec(680, 1))

\* ... and a number with a tag the function does not know: a number comes back.
C20_WitnessFallback ==
    /\ ConversionDone
    /\ fcall.fn = "set_speed" /\ fcall.value # None /\ fcall.unit_tag = "wmoUnit:kn"
    /\ Returned = fcall.value
\* Two decimals standing for the same number.
SameNumber(a, b) == a.n * Pow10(b.e) = b.n * Pow10(a.e)

\* Decimals the output of a quantity is rounded to.
Precision(fn) ==
    CASE fn \in {"set_temp", "set_speed"}          -> 1
      [] fn \in {"set_pressure", "set_visibility"} -> 2

\* The unit tags each function converts from.
RecognizedTags(fn) ==
    CASE fn = "set_temp"       -> {"wmoUnit:degC", "wmoUnit:degF"}
      [] fn = "set_speed"      -> {"wmoUnit:m_s-1", "wmoUnit:km_h-1", "wmoUnit:mph"}
      [] fn = "set_pressure"   -> {"wmoUnit:Pa", "wmoUnit:hPa", "wmoUnit:inHg"}
      [] fn = "set_visibility" -> {"wmoUnit:m", "wmoUnit:mi"}

\* The unit tags that already are in the unit of a target system.
MatchingTags(fn, target) ==
    CASE fn = "set_temp" /\ target = "imperial"       -> {"wmoUnit:degF"}
      [] fn = "set_temp" /\ target = "metric"         -> {"wmoUnit:degC"}
      [] fn = "set_speed" /\ target = "imperial"      -> {"wmoUnit:mph"}
      [] fn = "set_speed" /\ target = "metric"        -> {"wmoUnit:m_s-1"}
      [] fn = "set_pressure" /\ target = "imperial"   -> {"wmoUnit:inHg"}
      [] fn = "set_pressure" /\ target = "metric"     -> {"wmoUnit:hPa"}
      [] fn = "set_visibility" /\ target = "imperial" -> {"wmoUnit:mi"}
      [] fn = "set_visibility" /\ target = "metric"   -> {"wmoUnit:m"}
      [] OTHER                                        -> {}

\* A finished conversion of a number on the fallback path.
OnFallbackPath ==
    /\ ConversionDone /\ fcall.value # None
    /\ \/ fcall.unit_tag \notin RecognizedTags(fcall.fn)
       \/ fcall.unit_tag \in MatchingTags(fcall.fn, fcall.target)

\* C21: with an unrecognized source tag, or one that already matches the
\* target system, each conversion function returns the input value rounded to
\* the precision of its quantity (temperature and speed 1 decimal, pressure
\* and visibility 2): the value is unchanged but the rounding is applied.
C21_FallbackStillRounds ==
    OnFallbackPath =>
        /\ Returned # None
        /\ The(Returned).e <= Precision(fcall.fn)
        /\ SameNumber(The(Returned), Round(The(fcall.value), Precision(fcall.fn)))

\* The part of C21 the code keeps: on the fallback path the number that
\* comes back differs from the input by rounding at most (set_temp rounds,
\* the other three hand the input back as it is).
C21_FallbackKeepsValue ==
    OnFallbackPath =>
        /\ Returned # None
        /\ \/ Returned = fcall.value
           \/ /\ fcall.fn = "set_temp"
              /\ Returned = Some(Round(The(fcall.value), 1))

\* 12.34 m/s for a metric target comes back as 12.34, two decimals.
C21_WitnessUnrounded ==
    /\ OnFallbackPath
    /\ fcall.fn = "set_speed" /\ fcall.value = Some(Dec(1234, 2))
    /\ fcall.unit_tag = "wmoUnit:m_s-1" /\ fcall.target = "metric"
    /\ Returned = Some(Dec(1234, 2))
(***************************************************************************)
(* Claims about repeated temperature conversion, checked under SpecTrip    *)
(***************************************************************************)
TripDone == fpc = "done" /\ fcall.fn = "set_temp" /\ fcall.target = "imperial"

\* |a - b| <= 0.1
WithinTenth(a, b) ==
    10 * Abs(a.n * Pow10(b.e) - b.n * Pow10(a.e)) <= Pow10(a.e + b.e)

\* The original value in degrees Fahrenheit, unrounded: 32 + 1.8 v for a
\* Celsius value, the value itself otherwise.
OriginalImperial ==
    IF fcall.unit_tag = "wmoUnit:degC"
    THEN AddInt(Mul(The(fcall.value), Dec(18, 1)), 32)
    ELSE The(fcall.value)

\* C22 as stated: value -> imperial -> metric -> imperial reproduces the
\* original value within 0.1 degree, for every temperature value.
C22_RoundTripReproducesOriginal ==
    TripDone => WithinTenth(The(fout), OriginalImperial)

\* C22 as the code has it: the round trip reproduces within 0.1 degree the
\* value the first conversion returned (the original rounded to one decimal
\* in imperial), and so the original itself when it has one decimal at most.
C22_RoundTripReproducesFirstImperial ==
    TripDone =>
        /\ WithinTenth(The(fout), The(fresp))
        /\ The(fcall.value).e <= 1 => WithinTenth(The(fout), OriginalImperial)

\* 68.1 degF goes to 20.1 degC and comes back as 68.2 degF: the step of 0.1
\* is taken.
C22_Witness ==
    /\ TripDone
    /\ fcall.unit_tag = "wmoUnit:degF"
    /\ fresp = Some(Dec(681, 1)) /\ fout = Some(Dec(682, 1))

\* 20.6 degC goes to 69.1 degF, back to 20.6 degC and to 69.1 degF again.
C22_WitnessCelsius ==
    /\ TripDone
    /\ fcall.unit_tag = "wmoUnit:degC" /\ fcall.value = Some(Dec(206, 1))
    /\ fresp = Some(Dec(691, 1)) /\ fout = Some(Dec(691, 1))

\* 68.06 degF comes back as 68.2 degF, 0.14 away.
C22_WitnessFar ==
    /\ TripDone
    /\ fcall.unit_tag = "wmoUnit:degF" /\ fcall.value = Some(Dec(6806, 2))
    /\ fout = Some(Dec(682, 1))
(***************************************************************************)
(* Claims about set_cloud_cover, checked under SpecCloud                   *)
(***************************************************************************)
CloudDone == fpc = "done" /\ fcall.fn = "set_cloud_cover"

\* The percentage fixed for each coverage code.
C23_Percent(code) ==
    CASE code \in {"SKC", "CLR"} -> Dec(0, 0)
      [] code = "FEW"            -> Dec(125, 1)
      [] code = "SCT"            -> Dec(375, 1)
      [] code = "BKN"            -> Dec(75, 0)
      [] code = "OVC"            -> Dec(100, 0)

C23_Codes == {"SKC", "CLR", "FEW", "SCT", "BKN", "OVC"}

\* The layers given, and those of them that carry one of the six codes.
C23_Layers == IF fcall.cloud_layers = None THEN <<>> ELSE The(fcall.cloud_layers)

C23_Coded ==
    {i \in 1..Len(C23_Layers) :
        C23_Layers[i] # None /\ The(C23_Layers[i]) \in C23_Codes}

\* C23: set_cloud_cover returns null for an absent or empty layer sequence;
\* for layers that all carry one of the six codes it returns the largest of
\* their fixed percentages (SKC/CLR 0, FEW 12.5, SCT 37.5, BKN 75, OVC 100).
C23_MaxOverLayers ==
    CloudDone =>
        /\ C23_Layers = <<>> => Returned = None
        /\ (C23_Layers # <<>> /\ C23_Coded = 1..Len(C23_Layers)) =>
              /\ Returned # None
              /\ \E i \in C23_Coded : The(Returned) = C23_Percent(The(C23_Layers[i]))
              /\ \A i \in C23_Coded :
                     DecGE(The(Returned), C23_Percent(The(C23_Layers[i])))

\* Layers [SCT, OVC] give 100 ...
C23_Witness ==
    /\ CloudDone
    /\ fcall.cloud_layers = Some(<<Some("SCT"), Some("OVC")>>)
    /\ Returned = Some(Dec(100, 0))

\* ... the largest percentage comes first in [BKN, FEW] ...
C23_WitnessFirstLargest ==
    /\ CloudDone
    /\ fcall.cloud_layers = Some(<<Some("BKN"), Some("FEW")>>)
    /\ Returned = Some(Dec(75, 0))

\* ... and an absent and an empty sequence give null.
C23_WitnessAbsent == CloudDone /\ fcall.cloud_layers = None /\ Returned = None

C23_WitnessEmpty == CloudDone /\ fcall.cloud_layers = Some(<<>>) /\ Returned = None
(***************************************************************************)
(* Claims about the NWS alerts, checked under SpecAlerts                   *)
(***************************************************************************)
AlertsDone == fpc = "done" /\ fcall.fn = "get_nws_data"

\* The features of the response that are active at AlertNow, by position.
C24_ActiveAt(features) ==
    {i \in 1..Len(features) :
        features[i].expires = None \/ The(features[i].expires) >= AlertNow}

\* s lists, in order, exactly the features at the positions in keep.
C24_ListsInOrder(s, features, keep) ==
    /\ Len(s) = Cardinality(keep)
    /\ \A i \in 1..Len(s) :
         \E j \in keep :
            /\ s[i] = features[j]
            /\ Cardinality({k \in keep : k < j}) = i - 1

\* C24: the report get_nws_data returns carries the active alerts: its alerts
\* field lists, in response order, the alerts whose expiry is absent or not
\* earlier than now.
C24_ReportCarriesActiveAlerts ==
    AlertsDone =>
        LET features == The(fresp).features
            report   == The(fout)
        IN  /\ report.alerts # None
            /\ C24_ListsInOrder(The(report.alerts), features, C24_ActiveAt(features))

\* What the code does instead: the loop computes that list, and the report
\* comes back with alerts None whatever the response holds.
C24_AlertsComputedAndDropped ==
    /\ fpc \in {"sent", "done"} =>
          C24_ListsInOrder(The(fresp).alerts, The(fresp).features,
                           C24_ActiveAt(The(fresp).features))
    /\ AlertsDone => The(fout).alerts = None

\* An expired and an active alert in the response, and a report without alerts.
C24_WitnessDropped ==
    /\ AlertsDone
    /\ The(fresp).features =
           <<[event |-> "Flood Warning", expires |-> Some(1)],
             [event |-> "Heat Advisory", expires |-> Some(3)]>>
    /\ The(fresp).alerts = <<[event |-> "Heat Advisory", expires |-> Some(3)]>>
    /\ The(fout).alerts = None
(***************************************************************************)
(* Claims about the AccuWeather adapter, checked under SpecAccu            *)
(***************************************************************************)
AccuDone == fpc = "done" /\ fcall[1].fn = "get_accuweather_data"

\* What a call asked the location resolver for.
C25_Query(c) ==
    [friendly_name |-> call[c].friendly_name, lat |-> call[c].lat, lon |-> call[c].lon]

\* C25: the alias or coordinates the AccuWeather adapter passes to the
\* location resolver are derived from its location argument: two calls with
\* different locations ask for different things and never for one fixed alias.
C25_QueryFollowsLocation ==
    (AccuDone /\ fcall[1].location # fcall[2].location) => C25_Query(1) # C25_Query(2)

\* What the code does instead: every call asks for the alias "Home".
C25_AlwaysAsksForHome ==
    \A c \in ClientIds :
        call[c].status # "none" =>
            C25_Query(c) = [friendly_name |-> Some("Home"), lat |-> None, lon |-> None]

\* Sacramento, then Portland: the second call is served the key the first
\* one cached under "Home", without a request.
C25_WitnessSharedKey ==
    /\ AccuDone
    /\ fcall[1].location = <<"Sacramento", "CA">>
    /\ fcall[2].location = <<"Portland", "OR">>
    /\ call[1].status = "returned" /\ call[1].net = 1
    /\ call[2].status = "returned" /\ call[2].net = 0
    /\ call[2].result = call[1].result
(***************************************************************************)
(* Claims about repeated resolution, checked under SpecRepeat              *)
(***************************************************************************)
RepeatDone == fpc = "done" /\ fcall.fn = "get_location_key"

\* The first and the second call for the query, as they ended.
FirstCall  == The(fresp)
SecondCall == The(fout)

\* The second call came out of the cache: same key, no request, no append.
C27_ServedFromCache ==
    /\ SecondCall.status = "returned"
    /\ SecondCall.result = FirstCall.result
    /\ SecondCall.net = 0
    /\ cached_keys[1] = SecondCall.before

\* C27: after a successful get_location_key call for a query (an alias or a
\* coordinate pair), a later call with the same query on the same client
\* returns the same key, issues no request and appends no entry.
C27_ResolutionNotRepeated ==
    (RepeatDone /\ FirstCall.status = "returned") => C27_ServedFromCache

\* The part of C27 the code keeps: queries that carry a (non-empty) alias.
C27_AliasNotRepeated ==
    (RepeatDone /\ FirstCall.status = "returned" /\ Truthy(fcall.friendly_name))
        => C27_ServedFromCache

\* Coordinates asked twice, the provider answering with the position of the
\* place it found: two requests, and two entries for the one query.
C27_WitnessRepeated ==
    /\ RepeatDone
    /\ fcall.friendly_name = None
    /\ fcall.point = [lat |-> Some(38605200), lon |-> Some(-121342720)]
    /\ FirstCall.status = "returned" /\ FirstCall.net = 1
    /\ SecondCall.status = "returned" /\ SecondCall.net = 1
    /\ Len(cached_keys[1]) = Len(FirstCall.before) + 2

\* An alias asked twice: one request, one entry.
C27_WitnessAlias ==
    /\ RepeatDone
    /\ fcall.friendly_name = Some("Work") /\ fcall.point = NoPoint
    /\ FirstCall.status = "returned" /\ FirstCall.net = 1
    /\ C27_ServedFromCache
(***************************************************************************)
(* Claims about location resolution inside get_weather, under SpecAgg      *)
(***************************************************************************)
\* C26: location resolution happens once per get_weather call: at most one
\* forward-geocoding request is issued during the whole call, whatever the
\* number of enabled providers that need coordinates.
C26_GeocodeOncePerCall == geocode_calls <= 1

\* What the code does instead: one geocoding request for each enabled
\* provider that needs coordinates and is reached (national_weather_service
\* in get_weather, open_meteo in its adapter), and none for coordinates.
C26_GeocodePerProvider ==
    /\ geocode_calls <= Cardinality({p \in {"national_weather_service", "open_meteo"} :
                                       adapter_status[p] # "not_run"})
    /\ ~ IsCity(parse_location(location)) => geocode_calls = 0

\* A city, both providers enabled: the call ends with a view after two
\* geocoding requests.
C26_WitnessTwice ==
    /\ ret = "view" /\ geocode_calls = 2
    /\ adapter_status["national_weather_service"] = "succeeded"
    /\ adapter_status["open_meteo"] = "succeeded"
(***************************************************************************)
(* Claims about normalization, checked under SpecNorm                      *)
(***************************************************************************)
NormDone == fpc = "done" /\ fcall.fn \in ParseFunctions

ParsedImperial == The(fresp)
ParsedMetric   == The(fout)

\* C28: for one payload, a parse function populates the same canonical
\* fields for target units imperial and metric.
C28_SameFieldsForBothSystems ==
    NormDone =>
        /\ ParsedImperial.tag = ParsedMetric.tag
        /\ ParsedImperial.set = ParsedMetric.set

\* The part of C28 the code keeps: parse_weatherapi_data on a payload that
\* has both the imperial and the metric keys.
C28_WeatherApiCompletePayload ==
    (NormDone /\ fcall.fn = "parse_weatherapi_data"
              /\ fcall.data = WEATHERAPI_CURRENT_KEYS) =>
        /\ ParsedImperial.tag = "WeatherData" /\ ParsedMetric.tag = "WeatherData"
        /\ ParsedImperial.set = ParsedMetric.set

\* A complete Open-Meteo payload: five fields for imperial, none for metric.
C28_WitnessOpenMeteo ==
    /\ NormDone /\ fcall.fn = "parse_open_meteo_data"
    /\ fcall.data = OPEN_METEO_CURRENT_KEYS
    /\ ParsedImperial.set =
           {"temperature", "wind_speed", "wind_degree", "wind_direction", "condition_str"}
    /\ ParsedMetric.tag = "WeatherData" /\ ParsedMetric.set = {}

\* A complete OpenWeatherMap payload: a WeatherData for imperial, KeyError
\* for metric.
C28_WitnessOpenWeather ==
    /\ NormDone /\ fcall.fn = "parse_open_weather_map_data"
    /\ fcall.data = OPEN_WEATHER_CURRENT_KEYS
    /\ ParsedImperial.tag = "WeatherData"
    /\ ParsedMetric.tag = "raise" /\ ParsedMetric.exc = "KeyError"
(***************************************************************************)
(* Claims about the unit of set_speed's output, checked under SpecSpeed    *)
(***************************************************************************)
SpeedDone == fcall.fn = "set_speed" /\ Len(The(fout)) = 3

\* The values returned for the source given in m/s, km/h and mph.
FromMs  == The(fout)[1]
FromKmh == The(fout)[2]
FromMph == The(fout)[3]

\* |a - b| <= 0.2: equal up to the rounding of the inputs and of the outputs.
C29_Near(a, b) ==
    10 * Abs(a.n * Pow10(b.e) - b.n * Pow10(a.e)) <= 2 * Pow10(a.e + b.e)

\* C29: for a given target system the same wind speed given in m/s, km/h or
\* mph yields the same output value up to rounding: set_speed returns one
\* and the same unit whatever the recognized source tag.
C29_SameUnitForEverySource ==
    SpeedDone =>
        /\ C29_Near(FromMs, FromKmh)
        /\ C29_Near(FromMs, FromMph)
        /\ C29_Near(FromKmh, FromMph)

\* The part of C29 the code keeps: for imperial the three sources agree
\* (mph), for metric the km/h and mph sources agree (km/h).
C29_ImperialAgrees ==
    SpeedDone =>
        /\ C29_Near(FromKmh, FromMph)
        /\ fcall.target = "imperial" =>
              C29_Near(FromMs, FromKmh) /\ C29_Near(FromMs, FromMph)

\* 10 m/s, target metric: 10.0 from m/s, 36.0 from km/h and from mph.
C29_WitnessMetric ==
    /\ SpeedDone /\ fcall.tenths = 100 /\ fcall.target = "metric"
    /\ FromMs = Dec(100, 1) /\ FromKmh = Dec(360, 1) /\ FromMph = Dec(360, 1)

\* 10 m/s, target imperial: 22.4 mph from each source.
C29_WitnessImperial ==
    /\ SpeedDone /\ fcall.tenths = 100 /\ fcall.target = "imperial"
    /\ FromMs = Dec(224, 1) /\ FromKmh = Dec(224, 1) /\ FromMph = Dec(224, 1)
(***************************************************************************)
(* Claims about the location manager, checked under SpecCli                *)
(***************************************************************************)
CliRunning == fpc \in {"menu", "done"} /\ fcall.fn = "manage_locations"

C30_DefaultDefined(s) ==
    s.default_location = None \/ The(s.default_location) \in DOMAIN s.locations

C30_ActiveDefined(s) ==
    \/ s.active_location = None
    \/ /\ The(s.active_location) \in DOMAIN s.locations
       /\ s.location = Some(s.locations[The(s.active_location)])

\* C30: after any sequence of add, remove, set-default and set-active
\* operations every alias the settings refer to is still defined:
\* default_location is unset or a key of locations, active_location is unset
\* or a key of locations whose value is state["location"].
C30_AliasesStayDefined ==
    CliRunning => C30_DefaultDefined(CliState) /\ C30_ActiveDefined(CliState)

\* The part of C30 the code keeps: default_location.
C30_DefaultStaysDefined == CliRunning => C30_DefaultDefined(CliState)

\* The active alias removed: active_location still names it.
C30_WitnessRemovedActive ==
    /\ fpc = "done" /\ fcall.fn = "manage_locations"
    /\ fcall.state.active_location = Some("home")
    /\ CliState.active_location = Some("home")
    /\ "home" \notin DOMAIN CliState.locations

\* The active alias added again with another value: state["location"] keeps
\* the old one.
C30_WitnessOverwrittenActive ==
    /\ fpc = "done" /\ fcall.fn = "manage_locations"
    /\ CliState.active_location = Some("home")
    /\ "home" \in DOMAIN CliState.locations
    /\ CliState.locations["home"] = "Portland, OR"
    /\ CliState.location = Some("Sacramento, CA")
====
